---- MODULE Spec2Model ----
(***************************************************************************)
(* The execution context (Externalities) of ethcore: the capability        *)
(* surface an interpreter uses during one call/create frame, together      *)
(* with the nested call/create orchestration.  Frames form a call stack;   *)
(* the frame on top of the stack is the one whose interpreter is running.  *)
(***************************************************************************)
EXTENDS Integers, Sequences, FiniteSets, TLC

VARIABLES
    state,            \* State<B>: the world-state store behind self.state
    confidential_ctx, \* state.confidential_ctx is Some(ctx) with ctx.activated()
    stack,            \* the Externalities of the frames in flight, innermost last
    schedule,         \* machine.schedule(env_info.number)
    steps,            \* the number of operations issued so far
    last              \* the operation that returned last: its arguments and its result

vars == <<state, confidential_ctx, stack, schedule, steps, last>>

(***************************************************************************)
(* Bounds of the model.                                                    *)
(***************************************************************************)
MaxSteps == 2  \* operations the interpreters of one call tree issue in total

(***************************************************************************)
(* Option values and small helpers.                                        *)
(***************************************************************************)
None == <<>>
Some(x) == <<x>>
IsSome(o) == Len(o) = 1
Unwrap(o) == o[1]

Get(m, k, d) == IF k \in DOMAIN m THEN m[k] ELSE d
Put(m, k, v) == [x \in (DOMAIN m) \cup {k} |-> IF x = k THEN v ELSE m[x]]
Min(a, b) == IF a < b THEN a ELSE b

(***************************************************************************)
(* Account identifiers.  A derived contract address is the tuple of the    *)
(* values hashed for it, so that two addresses are equal exactly when the  *)
(* hashed inputs are.                                                      *)
(***************************************************************************)
A1 == <<1>>
A2 == <<2>>
A3 == <<3>>
UNSIGNED_SENDER == <<255>>

keccak(bytes) == <<bytes>>

\* executive::contract_address(address_scheme, sender, nonce, code) -> (Address, Option<H256>)
contract_address(address_scheme, sender, nonce, code) ==
    IF address_scheme.tag = "FromSenderAndNonce"
    THEN [address |-> <<sender, nonce>>, code_hash |-> None]
    ELSE [address |-> <<sender, address_scheme.salt, keccak(code)>>,
          code_hash |-> Some(keccak(code))]

(***************************************************************************)
(* The confidential contract header.  A code blob is a sequence of bytes;  *)
(* OASIS_HEADER_PREFIX stands for the header's magic marker, followed by   *)
(* the version and the encoded body (the confidentiality flag and the      *)
(* expiry, each optional).                                                 *)
(***************************************************************************)
OASIS_HEADER_PREFIX == 0
HeaderVersion == 1
Payload == <<7>>

EncodeFlag(confidential) ==
    IF confidential = None THEN 0 ELSE IF Unwrap(confidential) THEN 2 ELSE 1
EncodeExpiry(expiry) == IF expiry = None THEN 0 ELSE Unwrap(expiry) + 1
DecodeExpiry(b) == IF b = 0 THEN None ELSE Some(b - 1)

\* OasisContractHeader::V1 { confidential, expiry }
HeaderV1(confidential, expiry) == [confidential |-> confidential, expiry |-> expiry]

\* OasisContractHeader::to_vec
header_to_vec(h) ==
    <<OASIS_HEADER_PREFIX, HeaderVersion, EncodeFlag(h.confidential), EncodeExpiry(h.expiry)>>

Tail4(code) == SubSeq(code, 5, Len(code))

\* OasisContract::from_code: Ok(None) without the marker, Ok(Some(contract)) for a
\* header that decodes, Err for a marker that is followed by anything else.
from_code(code) ==
    IF Len(code) = 0 \/ code[1] # OASIS_HEADER_PREFIX
    THEN [tag |-> "Ok", contract |-> None]
    ELSE IF /\ Len(code) >= 4
            /\ code[2] = HeaderVersion
            /\ code[3] \in 0..2
            /\ code[4] >= 0
         THEN [tag |-> "Ok",
               contract |-> Some([header_version |-> HeaderVersion,
                                  confidential |-> code[3] = 2,
                                  expiry |-> DecodeExpiry(code[4]),
                                  code |-> Tail4(code)])]
         ELSE [tag |-> "Err", contract |-> None]

(***************************************************************************)
(* The world-state store.  Accounts that were never written read as empty. *)
(***************************************************************************)
Balance(st, a) == Get(st.balance, a, 0)
Nonce(st, a) == Get(st.nonce, a, 0)
Code(st, a) == IF a \in DOMAIN st.code THEN Some(st.code[a]) ELSE None
StorageAt(st, a, key) == Get(st.storage, <<a, key>>, 0)
StorageBytesAt(st, a, key) == Get(st.storage_bytes, <<a, key>>, <<>>)
StorageExpiry(st, a) == Get(st.expiry, a, 0)

\* Substate::new()
NewSubstate ==
    [logs |-> <<>>, suicides |-> {}, contracts_created |-> <<>>, sstore_clears_refund |-> 0]

\* Substate::accrue
accrue(s, t) ==
    [logs |-> s.logs \o t.logs,
     suicides |-> s.suicides \cup t.suicides,
     contracts_created |-> s.contracts_created \o t.contracts_created,
     sstore_clears_refund |-> s.sstore_clears_refund + t.sstore_clears_refund]

(***************************************************************************)
(* Environment of the block being executed and the schedule of the chain.  *)
(***************************************************************************)
env_info == [timestamp |-> 1, number |-> 100, last_hashes |-> <<>>]

Schedules ==
    {[create_data_gas |-> 1, create_data_limit |-> 1, exceptional_failed_code_deposit |-> e] :
        e \in {TRUE}}

\* Schedule::prorated_sstore_refund_gas
prorated_sstore_refund_gas(duration_secs, bytes_len) == duration_secs * bytes_len

(***************************************************************************)
(* The gated mutators.  Each handler maps the store and the frame to the   *)
(* result it returns, the store and the frame's Effect Accumulator.        *)
(* dberr is the backing store failing the access the handler makes.        *)
(***************************************************************************)
Outcome(res, st, sub) == [res |-> res, state |-> st, substate |-> sub]

set_storage_unguarded(st, f, key, value, dberr) ==
    IF dberr
    THEN Outcome("StorageError", st, f.substate)
    ELSE Outcome("Ok",
                 [st EXCEPT !.storage = Put(st.storage, <<f.origin_info.address, key>>, value)],
                 f.substate)

set_storage(st, f, key, value, dberr) ==
    IF f.static_flag
    THEN Outcome("MutableCallInStaticContext", st, f.substate)
    ELSE IF dberr
         THEN Outcome("StorageError", st, f.substate)
         ELSE Outcome("Ok",
                      [st EXCEPT !.storage = Put(st.storage, <<f.origin_info.address, key>>, value)],
                      f.substate)

set_storage_bytes_unguarded(st, f, key, value, dberr) ==
    IF dberr
    THEN Outcome("StorageError", st, f.substate)
    ELSE Outcome("Ok",
                 [st EXCEPT !.storage_bytes =
                       Put(st.storage_bytes, <<f.origin_info.address, key>>, value)],
                 f.substate)

set_storage_bytes(st, f, key, value, dberr) ==
    IF f.static_flag
    THEN Outcome("MutableCallInStaticContext", st, f.substate)
    ELSE IF dberr
         THEN Outcome("StorageError", st, f.substate)
         ELSE Outcome("Ok",
                      [st EXCEPT !.storage_bytes =
                            Put(st.storage_bytes, <<f.origin_info.address, key>>, value)],
                      f.substate)

LogEntry(address, topics, data) == [address |-> address, topics |-> topics, data |-> data]

log_prepend(st, f, topics, data) ==
    IF f.static_flag
    THEN Outcome("MutableCallInStaticContext", st, f.substate)
    ELSE Outcome("Ok", st,
                 [f.substate EXCEPT !.logs = <<LogEntry(f.origin_info.address, topics, data)>> \o @])

log(st, f, topics, data) ==
    IF f.static_flag
    THEN Outcome("MutableCallInStaticContext", st, f.substate)
    ELSE Outcome("Ok", st,
                 [f.substate EXCEPT !.logs = Append(@, LogEntry(f.origin_info.address, topics, data))])

\* State::sub_balance
sub_balance(st, a, by) == [st EXCEPT !.balance = Put(st.balance, a, Balance(st, a) - by)]
\* State::add_balance
add_balance(st, a, by) == [st EXCEPT !.balance = Put(st.balance, a, Balance(st, a) + by)]
\* State::transfer_balance
transfer_balance(st, from, to, by) == add_balance(sub_balance(st, from, by), to, by)

suicide_credits_only(st, f, refund_address, dberr) ==
    IF f.static_flag
    THEN Outcome("MutableCallInStaticContext", st, f.substate)
    ELSE IF dberr
         THEN Outcome("StorageError", st, f.substate)
         ELSE LET address == f.origin_info.address
                  balance == Balance(st, address)
                  st2 == IF address = refund_address
                         THEN sub_balance(st, address, balance)
                         ELSE add_balance(st, refund_address, balance)
              IN  Outcome("Ok", st2,
                          [f.substate EXCEPT !.suicides = @ \cup {address}])

suicide_refunds_self(st, f, refund_address, dberr) ==
    IF f.static_flag
    THEN Outcome("MutableCallInStaticContext", st, f.substate)
    ELSE IF dberr
         THEN Outcome("StorageError", st, f.substate)
         ELSE LET address == f.origin_info.address
                  balance == Balance(st, address)
                  st2 == transfer_balance(st, address, refund_address, balance)
              IN  Outcome("Ok", st2,
                          [f.substate EXCEPT !.suicides = @ \cup {address}])

suicide_toggles(st, f, refund_address, dberr) ==
    IF f.static_flag
    THEN Outcome("MutableCallInStaticContext", st, f.substate)
    ELSE IF dberr
         THEN Outcome("StorageError", st, f.substate)
         ELSE LET address == f.origin_info.address
                  balance == Balance(st, address)
                  st2 == IF address = refund_address
                         THEN sub_balance(st, address, balance)
                         ELSE transfer_balance(st, address, refund_address, balance)
              IN  Outcome("Ok", st2,
                          [f.substate EXCEPT !.suicides = IF address \in @
                                                          THEN @ \ {address}
                                                          ELSE @ \cup {address}])

suicide(st, f, refund_address, dberr) ==
    IF f.static_flag
    THEN Outcome("MutableCallInStaticContext", st, f.substate)
    ELSE IF dberr
         THEN Outcome("StorageError", st, f.substate)
         ELSE LET address == f.origin_info.address
                  balance == Balance(st, address)
                  st2 == IF address = refund_address
                         THEN sub_balance(st, address, balance)
                         ELSE transfer_balance(st, address, refund_address, balance)
              IN  Outcome("Ok", st2,
                          [f.substate EXCEPT !.suicides = @ \cup {address}])

\* Result<u64>: the remaining seconds, or the error
seconds_until_expiry_at_equal(st, f, dberr) ==
    LET current_timestamp == f.env_info.timestamp
        expiry_timestamp == StorageExpiry(st, f.origin_info.address)
    IN  IF dberr
        THEN [tag |-> "Err", err |-> "StorageError", secs |-> 0]
        ELSE IF current_timestamp >= expiry_timestamp
             THEN [tag |-> "Err", err |-> "ContractExpired", secs |-> 0]
             ELSE [tag |-> "Ok", err |-> "", secs |-> expiry_timestamp - current_timestamp]

seconds_until_expiry(st, f, dberr) ==
    LET current_timestamp == f.env_info.timestamp
        expiry_timestamp == StorageExpiry(st, f.origin_info.address)
    IN  IF dberr
        THEN [tag |-> "Err", err |-> "StorageError", secs |-> 0]
        ELSE IF current_timestamp > expiry_timestamp
             THEN [tag |-> "Err", err |-> "ContractExpired", secs |-> 0]
             ELSE [tag |-> "Ok", err |-> "", secs |-> expiry_timestamp - current_timestamp]

inc_sstore_clears_overwrites(st, f, bytes_len, dberr) ==
    LET duration_secs == seconds_until_expiry(st, f, dberr)
    IN  IF duration_secs.tag = "Err"
        THEN Outcome(duration_secs.err, st, f.substate)
        ELSE LET refund == prorated_sstore_refund_gas(duration_secs.secs, bytes_len)
             IN  Outcome("Ok", st, [f.substate EXCEPT !.sstore_clears_refund = refund])

inc_sstore_clears(st, f, bytes_len, dberr) ==
    LET duration_secs == seconds_until_expiry(st, f, dberr)
    IN  IF duration_secs.tag = "Err"
        THEN Outcome(duration_secs.err, st, f.substate)
        ELSE LET refund == prorated_sstore_refund_gas(duration_secs.secs, bytes_len)
             IN  Outcome("Ok", st,
                         [f.substate EXCEPT !.sstore_clears_refund = @ + refund])

(***************************************************************************)
(* create: the header rewrite, the address derivation, the second parse,   *)
(* the action parameters and the nonce increment that precede the nested   *)
(* execution.                                                              *)
(***************************************************************************)
CodeResult(tag, code) == [tag |-> tag, code |-> code]

rewrite_code_drop_expiry(ctx_activated, code) ==
    IF ~ctx_activated
    THEN CodeResult("Ok", code)
    ELSE LET oc == from_code(code)
         IN  IF oc.tag = "Err"
             THEN CodeResult("Err", code)
             ELSE IF oc.contract # None /\ ~Unwrap(oc.contract).confidential
                  THEN CodeResult("Ok",
                           header_to_vec(HeaderV1(Some(TRUE), None))
                               \o Unwrap(oc.contract).code)
                  ELSE IF oc.contract # None
                       THEN CodeResult("Ok", code)
                       ELSE CodeResult("Ok",
                                header_to_vec(HeaderV1(Some(TRUE), None)) \o code)

rewrite_code_ignores_header(ctx_activated, code) ==
    IF ~ctx_activated
    THEN CodeResult("Ok", code)
    ELSE LET oc == from_code(code)
         IN  IF oc.tag = "Err"
             THEN CodeResult("Err", code)
             ELSE IF oc.contract # None /\ ~Unwrap(oc.contract).confidential
                  THEN CodeResult("Ok",
                           header_to_vec(HeaderV1(Some(TRUE), Unwrap(oc.contract).expiry))
                               \o Unwrap(oc.contract).code)
                  ELSE CodeResult("Ok",
                           header_to_vec(HeaderV1(Some(TRUE), None)) \o code)

\* the block computing the local `code` of create
rewrite_code(ctx_activated, code) ==
    IF ~ctx_activated
    THEN CodeResult("Ok", code)
    ELSE LET oc == from_code(code)
         IN  IF oc.tag = "Err"
             THEN CodeResult("Err", code)
             ELSE IF oc.contract # None /\ ~Unwrap(oc.contract).confidential
                  THEN CodeResult("Ok",
                           header_to_vec(HeaderV1(Some(TRUE), Unwrap(oc.contract).expiry))
                               \o Unwrap(oc.contract).code)
                  ELSE IF oc.contract # None
                       THEN CodeResult("Ok", code)
                       ELSE CodeResult("Ok",
                                header_to_vec(HeaderV1(Some(TRUE), None)) \o code)

derive_address_after_increment(st, f, address_scheme, code) ==
    contract_address(address_scheme, f.origin_info.address,
                     Nonce(st, f.origin_info.address) + 1, code)

\* contract_address(address_scheme, &self.origin_info.address, &nonce, &code)
derive_address(st, f, address_scheme, code) ==
    contract_address(address_scheme, f.origin_info.address,
                     Nonce(st, f.origin_info.address), code)

\* the ActionParams create builds
create_params(f, gas, value, code, derivation, oasis_contract) ==
    [code_address |-> derivation.address,
     address |-> derivation.address,
     sender |-> f.origin_info.address,
     origin |-> f.origin_info.origin,
     gas |-> gas,
     value |-> [tag |-> "Transfer", val |-> value],
     code |-> Some(IF oasis_contract = None THEN code ELSE Unwrap(oasis_contract).code),
     code_hash |-> derivation.code_hash,
     data |-> None,
     call_type |-> "None",
     params_type |-> "Embedded",
     oasis_contract |-> oasis_contract]

increments_nonce_always(f, params) == TRUE

\* if !self.static_flag { if params.sender != UNSIGNED_SENDER { inc_nonce } }
increments_nonce(f, params) == ~f.static_flag /\ params.sender # UNSIGNED_SENDER

\* State::inc_nonce
inc_nonce(st, a) == [st EXCEPT !.nonce = Put(st.nonce, a, Nonce(st, a) + 1)]

Prepared(failed, cause, code, derivation, params, st) ==
    [failed |-> failed, cause |-> cause, code |-> code, derivation |-> derivation,
     params |-> params, state |-> st]

NoDerivation == [address |-> None, code_hash |-> None]

create_prepare_parse_late(st, f, ctx_activated, gas, value, code_in, address_scheme, dberr) ==
    LET rewritten == rewrite_code(ctx_activated, code_in)
        code == rewritten.code
        derivation == derive_address(st, f, address_scheme, code)
        parsed == from_code(code)
        params == create_params(f, gas, value, code, derivation, parsed.contract)
    IN  IF rewritten.tag = "Err"
        THEN Prepared(TRUE, "header", code_in, NoDerivation, None, st)
        ELSE IF dberr = "nonce"
        THEN Prepared(TRUE, "nonce", code, NoDerivation, None, st)
        ELSE IF increments_nonce(f, [sender |-> f.origin_info.address]) /\ dberr = "inc_nonce"
        THEN Prepared(TRUE, "inc_nonce", code, derivation, None, st)
        ELSE IF parsed.tag = "Err"
        THEN Prepared(TRUE, "parse", code, derivation, None,
                      IF increments_nonce(f, [sender |-> f.origin_info.address])
                      THEN inc_nonce(st, f.origin_info.address) ELSE st)
        ELSE Prepared(FALSE, "", code, derivation, Some(params),
                      IF increments_nonce(f, params)
                      THEN inc_nonce(st, f.origin_info.address) ELSE st)

create_prepare(st, f, ctx_activated, gas, value, code_in, address_scheme, dberr) ==
    LET rewritten == rewrite_code(ctx_activated, code_in)
        code == rewritten.code
        derivation == derive_address(st, f, address_scheme, code)
        parsed == from_code(code)
        params == create_params(f, gas, value, code, derivation, parsed.contract)
    IN  IF rewritten.tag = "Err"
        THEN Prepared(TRUE, "header", code_in, NoDerivation, None, st)
        ELSE IF dberr = "nonce"
        THEN Prepared(TRUE, "nonce", code, NoDerivation, None, st)
        ELSE IF parsed.tag = "Err"
        THEN Prepared(TRUE, "parse", code, derivation, None, st)
        ELSE IF increments_nonce(f, params) /\ dberr = "inc_nonce"
        THEN Prepared(TRUE, "inc_nonce", code, derivation, Some(params), st)
        ELSE Prepared(FALSE, "", code, derivation, Some(params),
                      IF increments_nonce(f, params)
                      THEN inc_nonce(st, f.origin_info.address) ELSE st)

\* Result of the nested execution: Ok(FinalizationResult) or Err
VmOk(gas_left, apply_state, return_data) ==
    [tag |-> "Ok", gas_left |-> gas_left, apply_state |-> apply_state,
     return_data |-> return_data]
VmErr == [tag |-> "Err", gas_left |-> 0, apply_state |-> FALSE, return_data |-> <<>>]

Result(tag, address, gas_left, return_data) ==
    [tag |-> tag, address |-> address, gas_left |-> gas_left, return_data |-> return_data]
Failed == Result("Failed", None, 0, <<>>)

Finished(result, sub) == [result |-> result, substate |-> sub]

create_finish_push_always(sub, vmres, address) ==
    IF vmres.tag = "Ok" /\ vmres.apply_state
    THEN Finished(Result("Created", Some(address), vmres.gas_left, <<>>),
                  [sub EXCEPT !.contracts_created = Append(@, address)])
    ELSE IF vmres.tag = "Ok"
         THEN Finished(Result("Reverted", None, vmres.gas_left, vmres.return_data),
                       [sub EXCEPT !.contracts_created = Append(@, address)])
         ELSE Finished(Failed, sub)

create_finish_revert_as_created(sub, vmres, address) ==
    IF vmres.tag = "Ok"
    THEN Finished(Result("Created", Some(address), vmres.gas_left, <<>>),
                  [sub EXCEPT !.contracts_created = Append(@, address)])
    ELSE Finished(Failed, sub)

\* the match on ex.create(..) at the end of create
create_finish(sub, vmres, address) ==
    IF vmres.tag = "Ok" /\ vmres.apply_state
    THEN Finished(Result("Created", Some(address), vmres.gas_left, <<>>),
                  [sub EXCEPT !.contracts_created = Append(@, address)])
    ELSE IF vmres.tag = "Ok"
         THEN Finished(Result("Reverted", None, vmres.gas_left, vmres.return_data), sub)
         ELSE Finished(Failed, sub)

(***************************************************************************)
(* call: the code lookup, the header parse and the action parameters that  *)
(* precede the nested execution, and the mapping of its result.            *)
(***************************************************************************)
call_params_apparent_zero(f, gas, sender_address, receive_address, value, data, code_address, call_type, code, oasis_contract) ==
    [code_address |-> code_address,
     address |-> receive_address,
     sender |-> sender_address,
     origin |-> f.origin_info.origin,
     gas |-> gas,
     value |-> IF value = None
               THEN [tag |-> "Apparent", val |-> 0]
               ELSE [tag |-> "Transfer", val |-> Unwrap(value)],
     code |-> IF oasis_contract = None THEN code ELSE Some(Unwrap(oasis_contract).code),
     code_hash |-> IF code = None THEN Some(keccak(<<>>)) ELSE Some(keccak(Unwrap(code))),
     data |-> Some(data),
     call_type |-> call_type,
     params_type |-> "Separate",
     oasis_contract |-> oasis_contract]

\* the ActionParams call builds, with the value overwritten by an explicit amount
call_params(f, gas, sender_address, receive_address, value, data, code_address, call_type, code, oasis_contract) ==
    [code_address |-> code_address,
     address |-> receive_address,
     sender |-> sender_address,
     origin |-> f.origin_info.origin,
     gas |-> gas,
     value |-> IF value = None
               THEN [tag |-> "Apparent", val |-> f.origin_info.value]
               ELSE [tag |-> "Transfer", val |-> Unwrap(value)],
     code |-> IF oasis_contract = None THEN code ELSE Some(Unwrap(oasis_contract).code),
     code_hash |-> IF code = None THEN Some(keccak(<<>>)) ELSE Some(keccak(Unwrap(code))),
     data |-> Some(data),
     call_type |-> call_type,
     params_type |-> "Separate",
     oasis_contract |-> oasis_contract]

call_prepare_ignore_header(st, f, gas, sender_address, receive_address, value, data, code_address, call_type, dberr) ==
    LET code == Code(st, code_address)
    IN  IF dberr
        THEN Prepared(TRUE, "code", None, NoDerivation, None, st)
        ELSE Prepared(FALSE, "", code, NoDerivation,
                      Some(call_params(f, gas, sender_address, receive_address, value,
                                       data, code_address, call_type, code, None)),
                      st)

call_prepare(st, f, gas, sender_address, receive_address, value, data, code_address, call_type, dberr) ==
    LET code == Code(st, code_address)
        parsed == IF code = None THEN [tag |-> "Ok", contract |-> None]
                  ELSE from_code(Unwrap(code))
    IN  IF dberr
        THEN Prepared(TRUE, "code", None, NoDerivation, None, st)
        ELSE IF parsed.tag = "Err"
        THEN Prepared(TRUE, "header", code, NoDerivation, None, st)
        ELSE Prepared(FALSE, "", code, NoDerivation,
                      Some(call_params(f, gas, sender_address, receive_address, value,
                                       data, code_address, call_type, code,
                                       parsed.contract)),
                      st)

\* the match on ex.call(..) at the end of call
call_finish(sub, vmres) ==
    IF vmres.tag = "Ok" /\ vmres.apply_state
    THEN Finished(Result("Success", None, vmres.gas_left, vmres.return_data), sub)
    ELSE IF vmres.tag = "Ok"
         THEN Finished(Result("Reverted", None, vmres.gas_left, vmres.return_data), sub)
         ELSE Finished(Failed, sub)

from_parent_static_dropped(f) == FALSE

\* the static flag create and call hand to Executive::from_parent
from_parent_static(f) == f.static_flag

(***************************************************************************)
(* ret: the placement of the RETURN data according to the output policy.   *)
(***************************************************************************)
\* OutputPolicy::Return(BytesRef::Fixed | BytesRef::Flexible, copy)
Return(kind, dest, copy) == [policy |-> "Return", kind |-> kind, dest |-> dest, copy |-> copy]
\* OutputPolicy::InitContract(copy)
InitContract(copy) == [policy |-> "InitContract", kind |-> "None", dest |-> <<>>, copy |-> copy]

\* vm::Result<U256> of ret, with the store and the output buffers it leaves
Returned(res, gas_left, st, output) ==
    [res |-> res, gas_left |-> gas_left, state |-> st, output |-> output]

\* State::init_code
init_code(st, a, code) == [st EXCEPT !.code = Put(st.code, a, code)]

handle_copy_skipped(copy, data) == copy

\* let handle_copy = |to| to.as_mut().map(|b| **b = data.to_vec())
handle_copy(copy, data) == IF copy = None THEN None ELSE Some(data)

copy_fixed_whole(slice, data) == data

\* (&mut slice[..len]).copy_from_slice(&data[..len]) with len = min(slice.len(), data.len())
copy_fixed(slice, data) ==
    LET len == Min(Len(slice), Len(data))
    IN  SubSeq(data, 1, len) \o SubSeq(slice, len + 1, Len(slice))

deposits_code_always(output, apply_state) == output.policy = "InitContract"

\* the arm OutputPolicy::InitContract(ref mut copy) if apply_state
deposits_code(output, apply_state) == output.policy = "InitContract" /\ apply_state

return_cost(sched, data) == Len(data) * sched.create_data_gas

deposit_fails_at_equal(sched, gas, data) ==
    return_cost(sched, data) >= gas \/ Len(data) > sched.create_data_limit

\* if return_cost > *gas || data.len() > self.schedule.create_data_limit
deposit_fails(sched, gas, data) ==
    return_cost(sched, data) > gas \/ Len(data) > sched.create_data_limit

failed_deposit_lenient(st, f, sched, gas) == Returned("Ok", gas, st, f.output)

\* match self.schedule.exceptional_failed_code_deposit
failed_deposit(st, f, sched, gas) ==
    IF sched.exceptional_failed_code_deposit
    THEN Returned("OutOfGas", 0, st, f.output)
    ELSE Returned("Ok", gas, st, f.output)

ret(st, f, sched, gas, data, apply_state, dberr) ==
    IF f.output.policy = "Return" /\ f.output.kind = "Fixed"
    THEN Returned("Ok", gas, st,
                  [f.output EXCEPT !.copy = handle_copy(@, data),
                                   !.dest = copy_fixed(@, data)])
    ELSE IF f.output.policy = "Return"
    THEN Returned("Ok", gas, st,
                  [f.output EXCEPT !.copy = handle_copy(@, data), !.dest = data])
    ELSE IF deposits_code(f.output, apply_state)
    THEN IF deposit_fails(sched, gas, data)
         THEN failed_deposit(st, f, sched, gas)
         ELSE IF dberr
              THEN Returned("StorageError", 0, st,
                            [f.output EXCEPT !.copy = handle_copy(@, data)])
              ELSE Returned("Ok", gas - return_cost(sched, data),
                            init_code(st, f.origin_info.address, data),
                            [f.output EXCEPT !.copy = handle_copy(@, data)])
    ELSE Returned("Ok", gas, st, f.output)

(***************************************************************************)
(* blockhash: the hash of one of the 256 blocks before the current one.    *)
(* The requested number is a U256, kept as its low 64 bits and the rest.   *)
(***************************************************************************)
HashWindow == 256
ZeroHash == 0

U256(hi, lo) == [hi |-> hi, lo |-> lo]
\* *number < U256::from(n) for a u64 n
lt_u64(number, n) == number.hi = 0 /\ number.lo < n
\* U256::low_u64
low_u64(number) == number.lo
Max(a, b) == IF a > b THEN a ELSE b

Hash(tag, hash) == [tag |-> tag, hash |-> hash]

blockhash_window_exclusive(f, number) ==
    LET n == f.env_info.number
    IN  IF lt_u64(number, n) /\ low_u64(number) > Max(HashWindow, n) - HashWindow
        THEN LET index == n - low_u64(number) - 1
             IN  IF index < Len(f.env_info.last_hashes)
                 THEN Hash("Ok", f.env_info.last_hashes[index + 1])
                 ELSE Hash("Panic", ZeroHash)
        ELSE Hash("Ok", ZeroHash)

\* indexing last_hashes beyond its length aborts the execution
blockhash(f, number) ==
    LET n == f.env_info.number
    IN  IF lt_u64(number, n) /\ low_u64(number) >= Max(HashWindow, n) - HashWindow
        THEN LET index == n - low_u64(number) - 1
             IN  IF index < Len(f.env_info.last_hashes)
                 THEN Hash("Ok", f.env_info.last_hashes[index + 1])
                 ELSE Hash("Panic", ZeroHash)
        ELSE Hash("Ok", ZeroHash)

(***************************************************************************)
(* The nested executive: it opens a frame one level deeper on a checkpoint *)
(* of the store with a fresh Effect Accumulator, and on return merges the  *)
(* accumulator into the caller's or rolls the store back.                  *)
(***************************************************************************)
\* OriginInfo::from(params)
OriginInfo_from(params) ==
    [address |-> params.address, origin |-> params.origin, value |-> params.value.val]

\* Executive::as_externalities: static if the parent was or the call is a static call
child_static(static_flag, params) == static_flag \/ params.call_type = "StaticCall"

\* the transfer of an explicit amount at the start of the nested execution
executive_transfer(st, params) ==
    IF params.value.tag = "Transfer"
    THEN transfer_balance(st, params.sender, params.address, params.value.val)
    ELSE st

\* the nested execution aborts when the sender cannot cover the transfer
executive_transfer_panics(st, params) ==
    params.value.tag = "Transfer" /\ Balance(st, params.sender) < params.value.val

NewFrame(params, depth, static_flag, output, kind, checkpoint) ==
    [origin_info |-> OriginInfo_from(params),
     depth |-> depth,
     static_flag |-> static_flag,
     output |-> output,
     env_info |-> env_info,
     substate |-> NewSubstate,
     kind |-> kind,
     checkpoint |-> checkpoint]

create_checkpoint_before_increment(st, p) == st

\* Executive::create: the checkpoint the executive takes on the store create hands
\* it, which already holds the incremented nonce
create_checkpoint(st, p) == p.state

\* Executive: what the caller's store and accumulator become when the frame ends
enact_result(vmres, st, checkpoint, parent_sub, child_sub) ==
    IF vmres.tag = "Ok" /\ vmres.apply_state
    THEN [state |-> st, substate |-> accrue(parent_sub, child_sub)]
    ELSE [state |-> checkpoint, substate |-> parent_sub]

(***************************************************************************)
(* Inputs the interpreter hands to the operations.                         *)
(***************************************************************************)
Keys == {0}
Words == {1}
ByteValues == {<<1>>}
LogData == {<<8>>, <<9>>}
RefundAddresses == {A1, A2}
FreedLengths == {0, 1}
RetData == {Payload}
GasValues == {0, 1}
GasLimit == 1

ValidHeaders ==
    {HeaderV1(None, None), HeaderV1(Some(FALSE), Some(1)), HeaderV1(Some(TRUE), Some(1))}
InvalidCode == <<OASIS_HEADER_PREFIX>> \o Payload
CreateCodes == {Payload, InvalidCode} \cup {header_to_vec(h) \o Payload : h \in ValidHeaders}
FromSenderAndNonce == [tag |-> "FromSenderAndNonce", salt |-> 0]
FromSenderSaltAndCodeHash(salt) == [tag |-> "FromSenderSaltAndCodeHash", salt |-> salt]
Salts == {0, 1}
CreateInputs ==
    {[code |-> c, scheme |-> FromSenderAndNonce, value |-> 0] : c \in CreateCodes}
    \cup {[code |-> Payload, scheme |-> FromSenderSaltAndCodeHash(s), value |-> 0] :
              s \in Salts}
CreateFailures == {"none", "nonce", "inc_nonce"}

CallInputs(f) ==
    {[call_type |-> "Call", sender |-> f.origin_info.address, receive |-> A2,
      code_address |-> A2, value |-> v] : v \in {None, Some(1)}}
    \cup {[call_type |-> "Call", sender |-> f.origin_info.address, receive |-> A3,
           code_address |-> A3, value |-> None]}
    \cup {[call_type |-> "StaticCall", sender |-> f.origin_info.address, receive |-> A2,
           code_address |-> A2, value |-> None]}
    \cup {[call_type |-> "DelegateCall", sender |-> f.origin_info.address,
           receive |-> f.origin_info.address, code_address |-> A2, value |-> None]}

(***************************************************************************)
(* The record of the operation that returned last.                         *)
(***************************************************************************)
NoInfo ==
    [code_in |-> <<>>, code |-> <<>>, scheme |-> [tag |-> "", salt |-> 0], value |-> None,
     cause |-> "", derivation |-> NoDerivation, params |-> None, target |-> None,
     vmres |-> VmErr, child_sub |-> NewSubstate, output |-> None]

Last(op, f, result, args, info) ==
    [op |-> op, address |-> f.origin_info.address, static_flag |-> f.static_flag,
     result |-> result, args |-> args, info |-> info]

Top == stack[Len(stack)]
Running == Len(stack) >= 1 /\ steps < MaxSteps

(***************************************************************************)
(* Initial states: the store of the tests extended by three accounts, and  *)
(* the outermost frame as the transaction executive builds it.             *)
(***************************************************************************)
InitState ==
    [balance |-> (A1 :> 1),
     nonce |-> (A1 :> 0),
     code |-> (A2 :> (header_to_vec(HeaderV1(None, None)) \o Payload)) @@ (A3 :> InvalidCode),
     storage |-> << >>,
     storage_bytes |-> << >>,
     expiry |-> (A1 :> 2) @@ (UNSIGNED_SENDER :> 1)]

TopParams(address) ==
    [address |-> address, origin |-> address, value |-> [tag |-> "Transfer", val |-> 0]]

Init ==
    /\ state = InitState
    /\ confidential_ctx \in BOOLEAN
    /\ schedule \in Schedules
    /\ \E address \in {A1, UNSIGNED_SENDER}, static_flag \in BOOLEAN :
            stack = <<NewFrame(TopParams(address), 0, static_flag, InitContract(None), "top",
                               InitState)>>
    /\ steps = 0
    /\ last = Last("new", [origin_info |-> OriginInfo_from(TopParams(A1)),
                           static_flag |-> FALSE],
                   Result("Ok", None, 0, <<>>), <<>>, NoInfo)

(***************************************************************************)
(* The operations of the frame whose interpreter is running.               *)
(***************************************************************************)
Simple(op, o, args) ==
    /\ state' = o.state
    /\ stack' = [stack EXCEPT ![Len(stack)].substate = o.substate]
    /\ last' = Last(op, Top, Result(o.res, None, 0, <<>>), args, NoInfo)
    /\ steps' = steps + 1
    /\ UNCHANGED <<confidential_ctx, schedule>>

SetStorage ==
    /\ Running
    /\ \E key \in Keys, value \in Words, dberr \in BOOLEAN :
          Simple("set_storage", set_storage(state, Top, key, value, dberr), <<key, value>>)

SetStorageBytes ==
    /\ Running
    /\ \E key \in Keys, value \in ByteValues, dberr \in BOOLEAN :
          Simple("set_storage_bytes", set_storage_bytes(state, Top, key, value, dberr),
                 <<key, value>>)

Log ==
    /\ Running
    /\ \E data \in LogData :
          Simple("log", log(state, Top, <<>>, data), <<data>>)

Suicide ==
    /\ Running
    /\ \E refund_address \in RefundAddresses, dberr \in BOOLEAN :
          Simple("suicide", suicide(state, Top, refund_address, dberr),
                 <<refund_address, Top.substate.suicides>>)

IncSstoreClears ==
    /\ Running
    /\ \E bytes_len \in FreedLengths, dberr \in BOOLEAN :
          Simple("inc_sstore_clears", inc_sstore_clears(state, Top, bytes_len, dberr),
                 <<bytes_len>>)

Create ==
    /\ Running
    /\ \E in \in CreateInputs, dberr \in CreateFailures :
          /\ LET p == create_prepare(state, Top, confidential_ctx, GasLimit, in.value, in.code,
                                     in.scheme, dberr)
                 info == [NoInfo EXCEPT !.code_in = in.code, !.code = p.code,
                                        !.scheme = in.scheme, !.value = Some(in.value),
                                        !.cause = p.cause, !.derivation = p.derivation,
                                        !.params = p.params]
             IN  IF p.failed
                 THEN /\ state' = p.state
                      /\ stack' = stack
                      /\ last' = Last("create", Top, Failed, <<>>, info)
                 ELSE LET params == Unwrap(p.params)
                      IN  /\ state' = executive_transfer(p.state, params)
                          /\ stack' = Append(stack,
                                 NewFrame(params, Top.depth + 1,
                                          child_static(from_parent_static(Top), params),
                                          InitContract(None), "create",
                                          create_checkpoint(state, p)))
                          /\ last' = Last("create_enter", Top,
                                          Result("Entered", None, 0, <<>>), <<>>, info)
    /\ steps' = steps + 1
    /\ UNCHANGED <<confidential_ctx, schedule>>

Call ==
    /\ Running
    /\ \E in \in CallInputs(Top), dberr \in BOOLEAN :
          LET p == call_prepare(state, Top, GasLimit, in.sender, in.receive, in.value, <<>>,
                                in.code_address, in.call_type, dberr)
              info == [NoInfo EXCEPT !.code = p.code, !.value = in.value, !.cause = p.cause,
                                     !.params = p.params, !.target = Some(in.code_address)]
          IN  IF p.failed
              THEN /\ state' = p.state
                   /\ stack' = stack
                   /\ last' = Last("call", Top, Failed, <<in.call_type>>, info)
              ELSE IF executive_transfer_panics(p.state, Unwrap(p.params))
              THEN /\ state' = p.state
                   /\ stack' = <<>>
                   /\ last' = Last("call", Top, Result("Panic", None, 0, <<>>),
                                   <<in.call_type>>, [info EXCEPT !.cause = "balance"])
              ELSE LET params == Unwrap(p.params)
                   IN  /\ state' = executive_transfer(p.state, params)
                       /\ stack' = Append(stack,
                              NewFrame(params, Top.depth + 1,
                                       child_static(from_parent_static(Top), params),
                                       Return("Fixed", <<>>, None), "call", p.state))
                       /\ last' = Last("call_enter", Top, Result("Entered", None, 0, <<>>),
                                       <<in.call_type>>, info)
    /\ steps' = steps + 1
    /\ UNCHANGED <<confidential_ctx, schedule>>

\* the nested frame ends with vmres: the executive settles the store and the
\* accumulator, and the caller's create or call maps the result
Finish(vmres, st) ==
    LET child == Top
        n == Len(stack) - 1
        parent == stack[n]
        e == enact_result(vmres, st, child.checkpoint, parent.substate, child.substate)
        fin == IF child.kind = "create"
               THEN create_finish(e.substate, vmres, child.origin_info.address)
               ELSE call_finish(e.substate, vmres)
    IN  /\ state' = e.state
        /\ stack' = [SubSeq(stack, 1, n) EXCEPT ![n].substate = fin.substate]
        /\ last' = Last(child.kind, parent, fin.result, <<>>,
                        [NoInfo EXCEPT !.vmres = vmres, !.cause = "nested",
                                       !.derivation.address = child.origin_info.address,
                                       !.child_sub = child.substate])

Ret ==
    /\ Len(stack) >= 2
    /\ \E gas \in GasValues, data \in RetData, apply_state \in BOOLEAN, dberr \in BOOLEAN :
          LET r == ret(state, Top, schedule, gas, data, apply_state, dberr)
          IN  IF Len(stack) = 1
              THEN /\ state' = r.state
                   /\ stack' = <<>>
                   /\ last' = Last("ret", Top, Result(r.res, None, r.gas_left, data),
                                   <<gas, data, apply_state>>, NoInfo)
              ELSE Finish(IF r.res = "Ok" THEN VmOk(r.gas_left, apply_state, data)
                          ELSE VmErr, r.state)
    /\ UNCHANGED <<confidential_ctx, schedule, steps>>

\* the interpreter of a nested frame stops with an error
VmError ==
    /\ Len(stack) >= 2
    /\ Finish(VmErr, state)
    /\ UNCHANGED <<confidential_ctx, schedule, steps>>

Next ==
    \/ SetStorage
    \/ SetStorageBytes
    \/ Log
    \/ Suicide
    \/ IncSstoreClears
    \/ Create
    \/ Call
    \/ Ret
    \/ VmError

Spec == Init /\ [][Next]_vars

(***************************************************************************)
(* Properties.                                                             *)
(***************************************************************************)
GatedOps == {"set_storage", "set_storage_bytes", "log", "suicide"}

\* C1: in a frame whose static flag is true, each of set_storage, set_storage_bytes,
\* log and suicide returns MutableCallInStaticContext, and the step changes neither
\* the store (storage, balances, nonces, code) nor any frame's Effect Accumulator.
C1_StaticMutatorsRejected ==
    [][(last'.op \in GatedOps /\ last'.static_flag)
          => /\ last'.result.tag = "MutableCallInStaticContext"
             /\ state' = state
             /\ stack' = stack]_vars

\* a static frame holding a balance was asked to self-destruct and still holds it
C1_Witness ==
    /\ last.op = "suicide"
    /\ last.static_flag
    /\ last.address = A1
    /\ last.result.tag = "MutableCallInStaticContext"
    /\ Balance(state, A1) = 1
    /\ Top.substate = NewSubstate

\* C2: every frame spawned by call or create below a static frame is static, whatever
\* call kind was asked for: no descendant of a static frame has static_flag = FALSE.
C2_StaticInherited ==
    \A i, j \in 1..Len(stack) : (i < j /\ stack[i].static_flag) => stack[j].static_flag

\* a plain Call issued by a frame that a StaticCall made static spawned a static frame
C2_Witness ==
    /\ Len(stack) = 3
    /\ ~stack[1].static_flag
    /\ stack[2].static_flag
    /\ last.op = "call_enter"
    /\ last.args = <<"Call">>
    /\ stack[3].static_flag

\* C3: no operation of the interface changes the Effect Accumulator of a static frame:
\* in every step, every frame with static_flag = TRUE that stays on the stack keeps its
\* logs, self-destruct set, created contracts and refund total.
C3_StaticAccumulatorUntouched ==
    [][\A i \in 1..Min(Len(stack), Len(stack')) :
          stack[i].static_flag => stack'[i].substate = stack[i].substate]_vars

Range(seq) == {seq[i] : i \in 1..Len(seq)}
CreateInvoked == last'.op \in {"create", "create_enter"} /\ steps' = steps + 1
CallInvoked == last'.op \in {"call", "call_enter"} /\ steps' = steps + 1
NestedReturned == last'.op \in {"create", "call"} /\ steps' = steps
Unsuccessful == {"Reverted", "Failed"}

\* C4: when a nested call or create returns Reverted or Failed, the caller's Effect
\* Accumulator is what it was when the operation was invoked: frames below the running
\* one never change while it runs, and the return leaves the caller's accumulator as
\* it is.
C4_UnsuccessfulChildDiscarded ==
    [][/\ \A i \in 1..(Len(stack) - 1) : i < Len(stack') => stack'[i] = stack[i]
       /\ (last'.op \in {"create", "call"} /\ last'.result.tag \in Unsuccessful)
             => /\ Len(stack') >= 1
                /\ stack'[Len(stack')].substate = stack[Len(stack')].substate]_vars

\* a nested frame that had logged was reverted and the caller's accumulator is empty
C4_Witness ==
    /\ last.op \in {"create", "call"}
    /\ last.result.tag = "Reverted"
    /\ Len(last.info.child_sub.logs) = 1
    /\ Len(stack) = 1
    /\ Top.substate = NewSubstate

\* C5: create maps the nested result: finished with apply_state -> Created(derived
\* address, gas left) and the address is appended to the created contracts; finished
\* without -> Reverted(gas left, return data); an error -> Failed; in the last two the
\* created contracts are unchanged.  The frame create opens runs at the derived
\* address, and an address enters any created-contracts list only by a create that
\* returns Created for it or by the merge of a nested frame's list.
C5_CreateResultMapping ==
    [][/\ (last'.op = "create_enter")
             => Top'.origin_info.address = last'.info.derivation.address
       /\ (last'.op = "create" /\ steps' = steps + 1)
             => last'.result.tag = "Failed" /\ stack' = stack
       /\ (last'.op = "create" /\ steps' = steps)
             => LET v == last'.info.vmres
                    n == Len(stack')
                    before == stack[n].substate.contracts_created
                    after == stack'[n].substate.contracts_created
                IN  /\ (v.tag = "Ok" /\ v.apply_state)
                          => /\ last'.result.tag = "Created"
                             /\ last'.result.address = Some(Top.origin_info.address)
                             /\ last'.result.gas_left = v.gas_left
                             /\ after = (before \o Top.substate.contracts_created)
                                            \o <<Top.origin_info.address>>
                    /\ (v.tag = "Ok" /\ ~v.apply_state)
                          => /\ last'.result.tag = "Reverted"
                             /\ last'.result.gas_left = v.gas_left
                             /\ last'.result.return_data = v.return_data
                             /\ after = before
                    /\ (v.tag = "Err")
                          => /\ last'.result.tag = "Failed"
                             /\ after = before
       /\ \A i \in 1..Len(stack') :
             LET before == IF i <= Len(stack) THEN Range(stack[i].substate.contracts_created)
                           ELSE {}
                 merged == IF Len(stack') < Len(stack) /\ i = Len(stack')
                           THEN Range(Top.substate.contracts_created) ELSE {}
                 created == IF /\ last'.op = "create"
                               /\ last'.result.tag = "Created"
                               /\ i = Len(stack')
                            THEN {Unwrap(last'.result.address)} ELSE {}
             IN  Range(stack'[i].substate.contracts_created)
                     \subseteq (before \cup merged) \cup created]_vars

\* a create returned Created and the caller's list holds exactly the derived address
C5_Witness ==
    /\ last.op = "create"
    /\ last.result.tag = "Created"
    /\ last.result.address = Some(<<A1, 0>>)
    /\ Len(stack) = 1
    /\ Top.substate.contracts_created = <<(<<A1, 0>>)>>

NonceDelta(a) == Nonce(state', a) - Nonce(state, a)

\* C6 as stated: every create increments the creating account's nonce by exactly one
\* if and only if the frame is not static and the account is not the unsigned sender.
C6_IncrementsIffSignedNonStatic ==
    [][CreateInvoked
          => NonceDelta(last'.address) =
                IF ~last'.static_flag /\ last'.address # UNSIGNED_SENDER THEN 1 ELSE 0]_vars

\* C6 amended: a create that reaches the nested execution has incremented the creating
\* account's nonce by exactly one if and only if the frame is not static and the
\* account is not the unsigned sender; a create that returns Failed before the nested
\* execution (malformed header, failed nonce read or failed nonce write) leaves the
\* nonce unchanged.
C6_IncrementsWhenPrepared ==
    [][CreateInvoked
          => NonceDelta(last'.address) =
                IF /\ last'.op = "create_enter"
                   /\ ~last'.static_flag
                   /\ last'.address # UNSIGNED_SENDER
                THEN 1 ELSE 0]_vars

\* the signed account's non-static frame entered a create and its nonce went up
C6_Witness ==
    /\ last.op = "create_enter"
    /\ ~last.static_flag
    /\ last.address = A1
    /\ Nonce(state, A1) = 1
    /\ Len(stack) = 2

ConfidentialV1(expiry) == header_to_vec(HeaderV1(Some(TRUE), expiry))
Expiries == {None, Some(0), Some(1)}

\* C7: with the Confidential Context activated, create on code without a header
\* prepends a V1 header with confidential = true and no expiry; on code whose header
\* says confidential = false it replaces the header by one with confidential = true, the
\* same expiry and the same body; on code whose header says confidential = true it
\* passes the code on unchanged.  Without the activated context the code is unchanged.
\* The nested execution gets the header of the rewritten code and its body.
C7_ConfidentialHeaderSynthesis ==
    [][(last'.op = "create_enter")
          => LET code_in == last'.info.code_in
                 code == last'.info.code
                 params == Unwrap(last'.info.params)
             IN  /\ (~confidential_ctx) => code = code_in
                 /\ (confidential_ctx /\ code_in = Payload)
                       => /\ code = ConfidentialV1(None) \o Payload
                          /\ params.code = Some(Payload)
                          /\ params.oasis_contract # None
                          /\ Unwrap(params.oasis_contract).confidential
                          /\ Unwrap(params.oasis_contract).expiry = None
                 /\ \A e \in Expiries :
                       /\ (/\ confidential_ctx
                           /\ code_in \in {header_to_vec(HeaderV1(c, e)) \o Payload :
                                              c \in {None, Some(FALSE)}})
                             => /\ code = ConfidentialV1(e) \o Payload
                                /\ params.code = Some(Payload)
                                /\ Unwrap(params.oasis_contract).confidential
                                /\ Unwrap(params.oasis_contract).expiry = e
                       /\ (confidential_ctx /\ code_in = ConfidentialV1(e) \o Payload)
                             => code = code_in]_vars

\* a non-confidential header with an expiry was replaced by a confidential one that
\* keeps the expiry
C7_Witness ==
    /\ last.op = "create_enter"
    /\ confidential_ctx
    /\ last.info.code_in = header_to_vec(HeaderV1(Some(FALSE), Some(1))) \o Payload
    /\ last.info.code = ConfidentialV1(Some(1)) \o Payload
    /\ Unwrap(last.info.params).oasis_contract # None

\* C8: create on code that starts with the header marker and is not a valid header
\* returns Failed, opens no nested execution and changes neither the store nor any
\* frame, with the Confidential Context activated or not.
C8_InvalidHeaderFails ==
    [][(CreateInvoked /\ from_code(last'.info.code_in).tag = "Err")
          => /\ last'.op = "create"
             /\ last'.result = Failed
             /\ state' = state
             /\ stack' = stack]_vars

\* without the activated context, a signed non-static frame got Failed from the parse
\* that follows the nonce read, and its nonce is still 0
C8_Witness ==
    /\ last.op = "create"
    /\ last.info.code_in = InvalidCode
    /\ last.info.cause = "parse"
    /\ ~confidential_ctx
    /\ ~last.static_flag
    /\ last.address = A1
    /\ last.result = Failed
    /\ Nonce(state, A1) = 0

Nonces == 0..(MaxSteps + 1)

\* C9: the address create derives is contract_address of the creating frame's address,
\* that account's nonce as read before the increment, and the rewritten code.  Under
\* the nonce scheme it does not depend on the code and differs for every other nonce;
\* under the salted scheme it does not depend on the nonce and differs for every other
\* salt.
C9_AddressDerivation ==
    [][(CreateInvoked /\ last'.info.derivation # NoDerivation)
          => LET a == last'.address
                 n == Nonce(state, a)
                 scheme == last'.info.scheme
                 code == last'.info.code
                 derived == last'.info.derivation.address
             IN  /\ derived = contract_address(scheme, a, n, code).address
                 /\ (scheme.tag = "FromSenderAndNonce")
                       => /\ \A c \in CreateCodes :
                                contract_address(scheme, a, n, c).address = derived
                          /\ \A m \in Nonces \ {n} :
                                contract_address(scheme, a, m, code).address # derived
                 /\ (scheme.tag = "FromSenderSaltAndCodeHash")
                       => /\ \A m \in Nonces :
                                contract_address(scheme, a, m, code).address = derived
                          /\ \A t \in Salts \ {scheme.salt} :
                                contract_address(FromSenderSaltAndCodeHash(t), a, n, code)
                                    .address # derived]_vars

\* the second create of the signed account derived its address from nonce 1
C9_Witness ==
    /\ last.op = "create_enter"
    /\ last.address = A1
    /\ last.info.scheme = FromSenderAndNonce
    /\ last.info.derivation.address = <<A1, 1>>
    /\ Nonce(state, A1) = 2

ResultTags == {"Created", "Success", "Reverted", "Failed"}

\* C10 as stated: call and create always hand a result value back to the frame that
\* issued them; no invocation ends the execution.
C10_NeverAborts ==
    last.op \in {"call", "create"} => last.result.tag \in ResultTags /\ Len(stack) >= 1

\* C10 amended: a failed code read, a malformed header of the callee, a failed nonce
\* read or write and an error of the nested execution give Failed as an ordinary
\* result, and the issuing frame stays the running one.  A call ends the execution
\* only when it transfers an explicit amount that exceeds the sender's balance.
C10_FailuresAreResults ==
    [][/\ (CallInvoked /\ last'.info.cause = "code")
             => last'.result = Failed /\ stack' = stack
       /\ (/\ CallInvoked
           /\ last'.info.cause # "code"
           /\ Code(state, Unwrap(last'.info.target)) # None
           /\ from_code(Unwrap(Code(state, Unwrap(last'.info.target)))).tag = "Err")
             => last'.op = "call" /\ last'.result = Failed /\ stack' = stack
       /\ (CreateInvoked /\ last'.info.cause \in {"header", "nonce", "parse", "inc_nonce"})
             => last'.result = Failed /\ stack' = stack
       /\ (NestedReturned /\ last'.info.vmres.tag = "Err")
             => /\ last'.result = Failed
                /\ Len(stack') = Len(stack) - 1
                /\ Len(stack') >= 1
                /\ Top'.origin_info = stack[Len(stack')].origin_info
       /\ (stack' = <<>>)
             => /\ last'.op = "call"
                /\ last'.info.value # None
                /\ Unwrap(last'.info.value) > Balance(state, last'.address)]_vars

\* a call to an account whose code has a malformed header gave Failed and the issuing
\* frame can go on
C10_Witness ==
    /\ last.op = "call"
    /\ last.info.cause = "header"
    /\ last.info.target = Some(A3)
    /\ last.result = Failed
    /\ Len(stack) = 1
    /\ steps < MaxSteps

\* C11: call builds the Action Parameters of the nested frame with params_type
\* Separate and value Transfer(v) for an explicit amount v, else Apparent(value of the
\* calling frame), and the nested frame's value is the amount in them; so a call
\* without an explicit amount opens a frame whose value is the caller's.
C11_CallValue ==
    [][(last'.op = "call_enter")
          => LET params == Unwrap(last'.info.params)
                 value == last'.info.value
             IN  /\ params.params_type = "Separate"
                 /\ (value = None)
                       => /\ params.value = [tag |-> "Apparent", val |-> Top.origin_info.value]
                          /\ Top'.origin_info.value = Top.origin_info.value
                 /\ (value # None)
                       => /\ params.value = [tag |-> "Transfer", val |-> Unwrap(value)]
                          /\ Top'.origin_info.value = Unwrap(value)]_vars

\* a frame opened with an explicit amount of 1 called on without one, and the frame
\* that opened has the value 1
C11_Witness ==
    /\ Len(stack) = 3
    /\ last.op = "call_enter"
    /\ last.info.value = None
    /\ stack[1].origin_info.value = 0
    /\ stack[2].origin_info.value = 1
    /\ stack[3].origin_info.value = 1

(***************************************************************************)
(* ret of a frame that the transaction opened: one frame with an output    *)
(* policy and a schedule, whose interpreter returns.                       *)
(***************************************************************************)
MaxData == 2   \* longest returned data
MaxDest == 2   \* longest fixed destination
MaxGas == 4    \* most gas handed to ret

DataOfLen(n) == [i \in 1..n |-> 20 + i]
DestOfLen(n) == [i \in 1..n |-> 10 + i]
RetDatas == {DataOfLen(n) : n \in 0..MaxData}
Copies == {None, Some(<<>>)}
OutputPolicies ==
    {InitContract(copy) : copy \in Copies}
    \cup {Return("Fixed", DestOfLen(b), copy) : b \in 0..MaxDest, copy \in Copies}
    \cup {Return("Flexible", DestOfLen(b), copy) : b \in {1}, copy \in Copies}
RetSchedules ==
    {[create_data_gas |-> c, create_data_limit |-> l, exceptional_failed_code_deposit |-> e] :
        c \in {1, 2}, l \in {1, MaxData}, e \in BOOLEAN}

InitRet ==
    /\ state = InitState
    /\ confidential_ctx = FALSE
    /\ schedule \in RetSchedules
    /\ \E output \in OutputPolicies :
            stack = <<NewFrame(TopParams(A1), 0, FALSE, output, "top", InitState)>>
    /\ steps = 0
    /\ last = Last("new", [origin_info |-> OriginInfo_from(TopParams(A1)),
                           static_flag |-> FALSE],
                   Result("Ok", None, 0, <<>>), <<>>, NoInfo)

\* the interpreter of the frame returns; ret consumes the frame
RetTop ==
    /\ Len(stack) = 1
    /\ \E gas \in 0..MaxGas, data \in RetDatas, apply_state \in BOOLEAN, dberr \in BOOLEAN :
          LET r == ret(state, Top, schedule, gas, data, apply_state, dberr)
          IN  /\ state' = r.state
              /\ stack' = <<>>
              /\ last' = Last("ret", Top, Result(r.res, None, r.gas_left, data),
                              <<gas, data, apply_state>>,
                              [NoInfo EXCEPT !.output = Some(r.output)])
    /\ steps' = steps + 1
    /\ UNCHANGED <<confidential_ctx, schedule>>

NextRet == RetTop

SpecRet == InitRet /\ [][NextRet]_vars

RetGas == last'.args[1]
RetDataArg == last'.args[2]
RetApply == last'.args[3]
RetOutput == Unwrap(last'.info.output)

\* C12: ret under the Init-contract policy with apply_state, data of n bytes with n
\* within the code size limit and gas g of at least n times the deposit cost per byte
\* returns exactly g minus that cost, which is not negative, and the code stored at
\* the frame's address is then the data; the one other outcome is the error of a
\* backing store that refuses the write, which stores nothing.
C12_CodeDepositSuccess ==
    [][(/\ last'.op = "ret"
        /\ Top.output.policy = "InitContract"
        /\ RetApply
        /\ Len(RetDataArg) <= schedule.create_data_limit
        /\ RetGas >= Len(RetDataArg) * schedule.create_data_gas)
          => \/ /\ last'.result.tag = "Ok"
                /\ last'.result.gas_left = RetGas - Len(RetDataArg) * schedule.create_data_gas
                /\ last'.result.gas_left >= 0
                /\ Code(state', last'.address) = Some(RetDataArg)
             \/ /\ last'.result.tag = "StorageError"
                /\ state' = state]_vars

\* two bytes at cost 2 were deposited with gas 4, which leaves 0
C12_Witness ==
    /\ last.op = "ret"
    /\ last.args = <<4, DataOfLen(2), TRUE>>
    /\ schedule.create_data_gas = 2
    /\ Unwrap(last.info.output).policy = "InitContract"
    /\ last.result.tag = "Ok"
    /\ last.result.gas_left = 0
    /\ Code(state, A1) = Some(DataOfLen(2))

\* C13: ret under the Init-contract policy with apply_state whose deposit costs more
\* than the gas, or whose data is longer than the code size limit, returns OutOfGas
\* under a schedule with exceptional_failed_code_deposit and the gas unchanged under
\* one without; either way the store and the copy buffer are as before.
C13_CodeDepositFailure ==
    [][(/\ last'.op = "ret"
        /\ Top.output.policy = "InitContract"
        /\ RetApply
        /\ \/ Len(RetDataArg) * schedule.create_data_gas > RetGas
           \/ Len(RetDataArg) > schedule.create_data_limit)
          => /\ schedule.exceptional_failed_code_deposit => last'.result.tag = "OutOfGas"
             /\ ~schedule.exceptional_failed_code_deposit
                   => last'.result.tag = "Ok" /\ last'.result.gas_left = RetGas
             /\ state' = state
             /\ RetOutput = Top.output]_vars

\* data longer than the limit, gas enough for it, lenient schedule: the gas comes
\* back whole, no code is stored and the copy buffer is still empty
C13_Witness ==
    /\ last.op = "ret"
    /\ last.args = <<4, DataOfLen(2), TRUE>>
    /\ schedule = [create_data_gas |-> 1, create_data_limit |-> 1,
                   exceptional_failed_code_deposit |-> FALSE]
    /\ Unwrap(last.info.output) = InitContract(Some(<<>>))
    /\ last.result.tag = "Ok"
    /\ last.result.gas_left = 4
    /\ Code(state, A1) = None

\* C14: ret under the Init-contract policy without apply_state returns the gas it was
\* given and leaves the store unchanged, for every data and gas.
C14_NoApplyNoDeposit ==
    [][(last'.op = "ret" /\ Top.output.policy = "InitContract" /\ ~RetApply)
          => /\ last'.result.tag = "Ok"
             /\ last'.result.gas_left = RetGas
             /\ state' = state]_vars

\* a deposit that the gas would cover was not applied
C14_Witness ==
    /\ last.op = "ret"
    /\ last.args = <<4, DataOfLen(1), FALSE>>
    /\ Unwrap(last.info.output).policy = "InitContract"
    /\ last.result.tag = "Ok"
    /\ last.result.gas_left = 4
    /\ Code(state, A1) = None

\* C15: ret under the Return policy returns the gas it was given, sets the copy buffer,
\* if there is one, to the whole data, overwrites the first min(b, len(data)) bytes of
\* a fixed destination of length b with the data's prefix and leaves its other bytes,
\* replaces a growable destination by the data, and leaves the store unchanged.
C15_ReturnToBuffer ==
    [][(last'.op = "ret" /\ Top.output.policy = "Return")
          => LET before == Top.output
                 after == RetOutput
                 data == RetDataArg
                 b == Len(before.dest)
                 m == IF b < Len(data) THEN b ELSE Len(data)
             IN  /\ last'.result.tag = "Ok"
                 /\ last'.result.gas_left = RetGas
                 /\ state' = state
                 /\ (before.copy = None) => after.copy = None
                 /\ (before.copy # None) => after.copy = Some(data)
                 /\ (before.kind = "Fixed")
                       => /\ Len(after.dest) = b
                          /\ \A i \in 1..b :
                                after.dest[i] = IF i <= m THEN data[i] ELSE before.dest[i]
                 /\ (before.kind = "Flexible") => after.dest = data]_vars

\* one byte of data went into a fixed destination of two bytes, whose second byte
\* stayed, and into the copy buffer
C15_Witness ==
    /\ last.op = "ret"
    /\ last.args[2] = DataOfLen(1)
    /\ Unwrap(last.info.output) = Return("Fixed", <<21, 12>>, Some(DataOfLen(1)))

(***************************************************************************)
(* blockhash of a frame whose environment has a block number and a list of *)
(* recorded hashes, the most recent first.                                  *)
(***************************************************************************)
MaxNumber == 301   \* largest low part of a requested number

BlockNumbers == {0, 1, 100, HashWindow, HashWindow + 1, 300}
HistoryLengths == {0, 1, HashWindow}
HashesOfLen(k) == [i \in 1..k |-> 1000 + i]
EnvInfos ==
    {[timestamp |-> 1, number |-> n, last_hashes |-> HashesOfLen(k)] :
        n \in BlockNumbers, k \in HistoryLengths}
RequestedNumbers ==
    {U256(0, lo) : lo \in 0..MaxNumber} \cup {U256(1, lo) : lo \in {0, 99, 299}}

InitBlockhash ==
    /\ state = InitState
    /\ confidential_ctx = FALSE
    /\ schedule \in Schedules
    /\ \E e \in EnvInfos :
            stack = <<[NewFrame(TopParams(A1), 0, FALSE, InitContract(None), "top", InitState)
                          EXCEPT !.env_info = e]>>
    /\ steps = 0
    /\ last = Last("new", [origin_info |-> OriginInfo_from(TopParams(A1)),
                           static_flag |-> FALSE],
                   Result("Ok", None, 0, <<>>), <<>>, NoInfo)

BlockHash ==
    /\ Running
    /\ \E number \in RequestedNumbers :
          LET h == blockhash(Top, number)
          IN  /\ stack' = IF h.tag = "Panic" THEN <<>> ELSE stack
              /\ last' = Last("blockhash", Top, Result(h.tag, None, 0, <<h.hash>>),
                              <<number>>, NoInfo)
    /\ steps' = steps + 1
    /\ UNCHANGED <<state, confidential_ctx, schedule>>

NextBlockhash == BlockHash

SpecBlockhash == InitBlockhash /\ [][NextBlockhash]_vars

Requested == last'.args[1]
CurrentNumber == Top.env_info.number
Recorded == Top.env_info.last_hashes

\* C16: blockhash(n) is the zero hash for every n that is at least the current block
\* number and for every n more than 256 blocks behind it; for every other n it is the
\* recorded hash at position current - n - 1, where one is recorded, so the block
\* before the current one has the first recorded hash.
C16_BlockhashWindow ==
    [][(last'.op = "blockhash")
          => LET n == Requested.lo
                 position == CurrentNumber - n - 1
             IN  /\ (Requested.hi > 0 \/ n >= CurrentNumber \/ CurrentNumber - n > HashWindow)
                       => last'.result.tag = "Ok" /\ last'.result.return_data = <<ZeroHash>>
                 /\ (/\ Requested.hi = 0
                     /\ n < CurrentNumber
                     /\ CurrentNumber - n <= HashWindow
                     /\ position < Len(Recorded))
                       => /\ last'.result.tag = "Ok"
                          /\ last'.result.return_data = <<Recorded[position + 1]>>]_vars

\* at block 300 with a full history, the block 256 behind has the last recorded hash
C16_Witness ==
    /\ last.op = "blockhash"
    /\ Len(stack) = 1
    /\ Top.env_info.number = 300
    /\ Len(Top.env_info.last_hashes) = HashWindow
    /\ last.args = <<U256(0, 44)>>
    /\ last.result.return_data = <<1000 + HashWindow>>

\* C17: blockhash returns a hash for every requested number, every current block
\* number and every list of recorded hashes, however short; it never aborts, and a
\* lookup for which no hash is recorded gives the zero hash.
C17_BlockhashTotal ==
    [][(last'.op = "blockhash")
          => /\ last'.result.tag = "Ok"
             /\ stack' = stack
             /\ (CurrentNumber - Requested.lo - 1 >= Len(Recorded))
                   => last'.result.return_data = <<ZeroHash>>]_vars

\* C18: in a non-static frame, log(topics, data) appends the one entry {address of the
\* frame, topics, data} at the end of the frame's log sequence: the sequence is one
\* longer, its earlier entries are where and what they were, so the entries are in
\* call order; the frame's other accumulator parts and the store are unchanged.
C18_LogAppends ==
    [][(last'.op = "log" /\ ~last'.static_flag)
          => LET before == Top.substate
                 after == Top'.substate
             IN  /\ last'.result.tag = "Ok"
                 /\ Len(after.logs) = Len(before.logs) + 1
                 /\ \A i \in 1..Len(before.logs) : after.logs[i] = before.logs[i]
                 /\ after.logs[Len(after.logs)] =
                        [address |-> Top.origin_info.address, topics |-> <<>>,
                         data |-> last'.args[1]]
                 /\ [after EXCEPT !.logs = before.logs] = before
                 /\ Len(stack') = Len(stack)
                 /\ state' = state]_vars

\* two entries with different data are in the order of the calls
C18_Witness ==
    /\ last.op = "log"
    /\ last.args = <<(<<9>>)>>
    /\ Len(stack) = 1
    /\ Top.substate.logs = <<[address |-> A1, topics |-> <<>>, data |-> <<8>>],
                             [address |-> A1, topics |-> <<>>, data |-> <<9>>]>>

\* C19: in a non-static frame at address A with balance b, suicide(R) with R = A sets
\* A's balance to zero and changes no other balance; with R # A it sets A's balance to
\* zero and adds exactly b to R's; either way A is in the self-destruct set.  The one
\* other outcome is the error of a failing backing store, which changes nothing.
C19_SuicideBalances ==
    [][(last'.op = "suicide" /\ ~last'.static_flag)
          => LET A == Top.origin_info.address
                 R == last'.args[1]
                 b == Balance(state, A)
             IN  \/ /\ last'.result.tag = "Ok"
                    /\ Balance(state', A) = 0
                    /\ (R # A) => Balance(state', R) = Balance(state, R) + b
                    /\ \A x \in (DOMAIN state.balance \cup DOMAIN state'.balance) \ {A, R} :
                          Balance(state', x) = Balance(state, x)
                    /\ A \in Top'.substate.suicides
                 \/ /\ last'.result.tag = "StorageError"
                    /\ state' = state
                    /\ stack' = stack]_vars

\* the frame at A1 destructed to A2, which got A1's balance of 1
C19_Witness ==
    /\ last.op = "suicide"
    /\ last.address = A1
    /\ last.args[1] = A2
    /\ last.result.tag = "Ok"
    /\ Balance(state, A1) = 0
    /\ Balance(state, A2) = 1
    /\ steps = 1
    /\ Top.substate.suicides = {A1}

\* C20: a successful suicide leaves the frame's address in the self-destruct set, adds
\* nothing else to it, and, when the address was in it already, leaves the set as it
\* was: however many times frames at one address destruct, the address is in the
\* set once.
C20_SuicideIdempotent ==
    [][(last'.op = "suicide" /\ last'.result.tag = "Ok")
          => LET A == Top.origin_info.address
                 before == Top.substate.suicides
                 after == Top'.substate.suicides
             IN  /\ after = before \cup {A}
                 /\ Cardinality(after) = Cardinality(before \ {A}) + 1
                 /\ (A \in before) => after = before]_vars

\* the second successful suicide of the frame at A1: the set was {A1} before and is
\* {A1} after
C20_Witness ==
    /\ last.op = "suicide"
    /\ last.address = A1
    /\ last.result.tag = "Ok"
    /\ last.args[2] = {A1}
    /\ Top.substate.suicides = {A1}

RefundTotal(f) == f.substate.sstore_clears_refund

\* C21: a successful inc_sstore_clears adds the prorated amount, which is not
\* negative, to the frame's refund total, a failing one leaves the total as it is, and
\* no operation of the call tree makes the refund total of a frame smaller.
C21_RefundMonotonic ==
    [][/\ \A i \in 1..Min(Len(stack), Len(stack')) :
             RefundTotal(stack'[i]) >= RefundTotal(stack[i])
       /\ (last'.op = "inc_sstore_clears")
             => LET amount == (StorageExpiry(state, last'.address) - Top.env_info.timestamp)
                                  * last'.args[1]
                IN  IF last'.result.tag = "Ok"
                    THEN /\ amount >= 0
                         /\ RefundTotal(Top') = RefundTotal(Top) + amount
                    ELSE RefundTotal(Top') = RefundTotal(Top)]_vars

\* two clears of one byte with one second to the expiry add up to 2
C21_Witness ==
    /\ last.op = "inc_sstore_clears"
    /\ last.args = <<1>>
    /\ last.result.tag = "Ok"
    /\ steps = 2
    /\ RefundTotal(Top) = 2

(***************************************************************************)
(* The time to the storage expiry of a frame whose environment has a      *)
(* timestamp and whose account has a storage expiry.                       *)
(***************************************************************************)
MaxTime == 3   \* latest timestamp and latest expiry

InitExpiry ==
    /\ \E e \in 0..MaxTime : state = [InitState EXCEPT !.expiry = (A1 :> e)]
    /\ confidential_ctx = FALSE
    /\ schedule \in Schedules
    /\ \E t \in 0..MaxTime, static_flag \in BOOLEAN :
            stack = <<[NewFrame(TopParams(A1), 0, static_flag, InitContract(None), "top",
                                InitState)
                          EXCEPT !.env_info.timestamp = t]>>
    /\ steps = 0
    /\ last = Last("new", [origin_info |-> OriginInfo_from(TopParams(A1)),
                           static_flag |-> FALSE],
                   Result("Ok", None, 0, <<>>), <<>>, NoInfo)

SecondsUntilExpiry ==
    /\ Running
    /\ \E dberr \in BOOLEAN :
          LET r == seconds_until_expiry(state, Top, dberr)
          IN  last' = Last("seconds_until_expiry", Top,
                           Result(IF r.tag = "Ok" THEN "Ok" ELSE r.err, None, 0, <<r.secs>>),
                           <<>>, NoInfo)
    /\ steps' = steps + 1
    /\ UNCHANGED <<state, stack, confidential_ctx, schedule>>

NextExpiry ==
    \/ SecondsUntilExpiry
    \/ IncSstoreClears

SpecExpiry == InitExpiry /\ [][NextExpiry]_vars

ExpiryOps == {"seconds_until_expiry", "inc_sstore_clears"}

\* C22: seconds_until_expiry fails with ContractExpired exactly when the timestamp is
\* greater than the storage expiry of the frame's account, and otherwise returns the
\* expiry minus the timestamp, 0 when they are equal and never negative;
\* inc_sstore_clears fails with ContractExpired in the same case and in no other.  The
\* one other outcome of both is the error of a backing store that fails the read.
C22_ExpiredExactly ==
    [][(last'.op \in ExpiryOps)
          => LET t == Top.env_info.timestamp
                 e == StorageExpiry(state, last'.address)
             IN  \/ last'.result.tag = "StorageError" /\ state' = state /\ stack' = stack
                 \/ /\ t > e
                    /\ last'.result.tag = "ContractExpired"
                    /\ state' = state
                    /\ stack' = stack
                 \/ /\ t <= e
                    /\ last'.result.tag = "Ok"
                    /\ (last'.op = "seconds_until_expiry")
                          => /\ last'.result.return_data = <<e - t>>
                             /\ e - t >= 0]_vars

\* timestamp and expiry are equal: 0 seconds are left
C22_Witness ==
    /\ last.op = "seconds_until_expiry"
    /\ last.result.tag = "Ok"
    /\ last.result.return_data = <<0>>
    /\ Len(stack) = 1
    /\ Top.env_info.timestamp = 2
    /\ StorageExpiry(state, A1) = 2

(***************************************************************************)
(* The key canonicalizer and the generic key-value view of a frame's       *)
(* byte-value storage.                                                     *)
(***************************************************************************)
KeySize == 32

slice_to_key_hash_at_size(sl) ==
    IF Len(sl) >= KeySize
    THEN keccak(sl)
    ELSE [i \in 1..KeySize |-> IF i <= Len(sl) THEN sl[i] ELSE 0]

\* a zeroed key with the slice copied to its front, or the hash of a longer slice
slice_to_key(sl) ==
    IF Len(sl) > KeySize
    THEN keccak(sl)
    ELSE [i \in 1..KeySize |-> IF i <= Len(sl) THEN sl[i] ELSE 0]

\* Externalities::storage_bytes_at
storage_bytes_at(st, f, key, dberr) ==
    IF dberr
    THEN [tag |-> "StorageError", bytes |-> <<>>]
    ELSE [tag |-> "Ok", bytes |-> StorageBytesAt(st, f.origin_info.address, key)]

\* KVStore::get: self.storage_bytes_at(&slice_to_key(key)).ok()
kv_get(st, f, key, dberr) ==
    LET r == storage_bytes_at(st, f, slice_to_key(key), dberr)
    IN  IF r.tag = "Ok" THEN Some(r.bytes) ELSE None

\* KVStoreMut::set: self.set_storage_bytes(slice_to_key(key), value.to_vec()).ok()
kv_set(st, f, key, value, dberr) ==
    [set_storage_bytes(st, f, slice_to_key(key), value, dberr) EXCEPT !.res = "Unit"]

kv_remove_deletes(st, f, key, dberr) ==
    IF f.static_flag \/ dberr
    THEN Outcome("Unit", st, f.substate)
    ELSE Outcome("Unit",
                 [st EXCEPT !.storage_bytes =
                       [x \in (DOMAIN @) \ {<<f.origin_info.address, slice_to_key(key)>>} |-> @[x]]],
                 f.substate)

\* KVStoreMut::remove: self.set_storage_bytes(slice_to_key(key), Vec::new()).ok()
kv_remove(st, f, key, dberr) ==
    [set_storage_bytes(st, f, slice_to_key(key), <<>>, dberr) EXCEPT !.res = "Unit"]

\* keys of 0, 1, 31, 32 and 33 bytes
KvKeys == {[i \in 1..n |-> i] : n \in {0, 1, KeySize - 1, KeySize, KeySize + 1}}

InitKV ==
    /\ \E stored \in {<< >>} \cup {(<<A1, slice_to_key(k)>> :> <<5>>) : k \in KvKeys} :
          state = [InitState EXCEPT !.storage_bytes = stored]
    /\ confidential_ctx = FALSE
    /\ schedule \in Schedules
    /\ \E static_flag \in BOOLEAN :
            stack = <<NewFrame(TopParams(A1), 0, static_flag, InitContract(None), "top",
                               InitState)>>
    /\ steps = 0
    /\ last = Last("new", [origin_info |-> OriginInfo_from(TopParams(A1)),
                           static_flag |-> FALSE],
                   Result("Ok", None, 0, <<>>), <<>>, NoInfo)

KvGet ==
    /\ Running
    /\ \E key \in KvKeys, dberr \in BOOLEAN :
          LET r == kv_get(state, Top, key, dberr)
          IN  last' = Last("kv_get", Top,
                           Result(IF r = None THEN "None" ELSE "Some", None, 0,
                                  IF r = None THEN <<>> ELSE Unwrap(r)),
                           <<key, <<>>, dberr, slice_to_key(key)>>, NoInfo)
    /\ steps' = steps + 1
    /\ UNCHANGED <<state, stack, confidential_ctx, schedule>>

KvSet ==
    /\ Running
    /\ \E key \in KvKeys, value \in {<<>>, <<6>>}, dberr \in BOOLEAN :
          Simple("kv_set", kv_set(state, Top, key, value, dberr),
                 <<key, value, dberr, slice_to_key(key)>>)

KvRemove ==
    /\ Running
    /\ \E key \in KvKeys, dberr \in BOOLEAN :
          Simple("kv_remove", kv_remove(state, Top, key, dberr),
                 <<key, <<>>, dberr, slice_to_key(key)>>)

NextKV ==
    \/ KvGet
    \/ KvSet
    \/ KvRemove

SpecKV == InitKV /\ [][NextKV]_vars

KvOps == {"kv_get", "kv_set", "kv_remove"}

\* C23: the storage key of a slice of at most 32 bytes, the empty one and one of
\* exactly 32 included, has 32 bytes, the slice at its front and zeros behind; the
\* storage key of a longer slice is the hash of the whole slice.
C23_SliceToKey ==
    [][(last'.op \in KvOps)
          => LET sl == last'.args[1]
                 key == last'.args[4]
             IN  /\ (Len(sl) <= KeySize)
                       => /\ Len(key) = KeySize
                          /\ \A i \in 1..Len(sl) : key[i] = sl[i]
                          /\ \A i \in (Len(sl) + 1)..KeySize : key[i] = 0
                 /\ (Len(sl) > KeySize) => key = keccak(sl)]_vars

\* a slice of exactly 32 bytes is its own storage key
C23_Witness ==
    /\ last.op = "kv_set"
    /\ Len(last.args[1]) = KeySize
    /\ last.args[4] = last.args[1]
    /\ StorageBytesAt(state, A1, last.args[1]) = <<6>>

\* what the three operations of the view do, seen through the canonical key
KvRefinesStorage ==
    LET f == stack[1]
        key == last'.args[1]
        value == last'.args[2]
        dberr == last'.args[3]
        read == storage_bytes_at(state, f, slice_to_key(key), dberr)
    IN  /\ (last'.op = "kv_get")
              => /\ (read.tag = "Ok")
                       => last'.result.tag = "Some" /\ last'.result.return_data = read.bytes
                 /\ (read.tag # "Ok") => last'.result.tag = "None"
                 /\ state' = state
        /\ (last'.op = "kv_set")
              => state' = set_storage_bytes(state, f, slice_to_key(key), value, dberr).state
        /\ (last'.op = "kv_remove")
              => state' = kv_set(state, f, key, <<>>, dberr).state

\* C24 as stated: get reads what storageBytesAt reads at the canonical key, set
\* leaves the state setStorageBytes leaves, remove leaves the state a set of the
\* empty value leaves, and after a remove (on a store that works) a get of the key
\* returns the empty value.
C24_KvViewAsStated ==
    [][(last'.op \in KvOps)
          => /\ KvRefinesStorage
             /\ (last'.op = "kv_remove" /\ ~last'.args[3])
                   => kv_get(state', stack'[1], last'.args[1], FALSE) = Some(<<>>)]_vars

\* C24 amended: the three equivalences hold in every frame; a get after a remove
\* returns the empty value when the frame is not static and the store accepted the
\* write, and a remove in a static frame or on a failing store changes nothing.
C24_KvViewRefines ==
    [][(last'.op \in KvOps)
          => /\ KvRefinesStorage
             /\ (last'.op = "kv_remove")
                   => IF stack[1].static_flag \/ last'.args[3]
                      THEN state' = state
                      ELSE kv_get(state', stack'[1], last'.args[1], FALSE) = Some(<<>>)]_vars

\* a remove of a key that held a value, in a frame that may write
C24_Witness ==
    /\ last.op = "kv_remove"
    /\ ~stack[1].static_flag
    /\ ~last.args[3]
    /\ \E k \in KvKeys :
          /\ last.args[1] = k
          /\ <<A1, slice_to_key(k)>> \in DOMAIN state.storage_bytes
          /\ state.storage_bytes[<<A1, slice_to_key(k)>>] = <<>>
          /\ Len(k) = KeySize + 1

(***************************************************************************)
(* The interpreter factory.                                                *)
(***************************************************************************)
WASM_MAGIC_NUMBER == <<0, 97, 115, 109>>

\* evm::Factory::create: the bytecode interpreter sized to the requested gas
evm_create(gas) == [kind |-> "Interpreter", gas |-> gas]

\* OasisVm::new(ctx, vm)
OasisVm_new(ctx, vm) == [kind |-> "OasisVm", ctx |-> ctx, vm |-> vm]

\* VmFactory::create
VmFactory_create(ctx, params, sched) ==
    LET vm == IF /\ sched.wasm # None
                 /\ IF params.code = None
                    THEN FALSE
                    ELSE LET code == Unwrap(params.code)
                         IN  Len(code) > 4 /\ SubSeq(code, 1, 4) = WASM_MAGIC_NUMBER
              THEN [kind |-> "WasmInterpreter"]
              ELSE evm_create(params.gas)
    IN  OasisVm_new(ctx, vm)

FactorySchedules ==
    {s @@ [wasm |-> w] : s \in Schedules, w \in {None, Some("WasmCosts")}}
FactoryCodes ==
    {None}
        \cup {Some(SubSeq(WASM_MAGIC_NUMBER \o <<1, 0>>, 1, n)) : n \in 0..6}
        \cup {Some(<<1, 97, 115, 109, 1>>), Some(<<0, 97, 115, 1, 1>>), Some(Payload)}

InitFactory ==
    /\ state = InitState
    /\ confidential_ctx = FALSE
    /\ schedule \in FactorySchedules
    /\ stack = <<NewFrame(TopParams(A1), 0, FALSE, InitContract(None), "top", InitState)>>
    /\ steps = 0
    /\ last = Last("new", [origin_info |-> OriginInfo_from(TopParams(A1)),
                           static_flag |-> FALSE],
                   Result("Ok", None, 0, <<>>), <<>>, NoInfo)

VmCreate ==
    /\ Running
    /\ \E ctx \in {None, Some("ConfidentialCtx")}, code \in FactoryCodes, gas \in GasValues :
          LET vm == VmFactory_create(ctx, [code |-> code, gas |-> gas], schedule)
          IN  last' = Last("vm_create", Top, Result(vm.vm.kind, None, 0, <<>>),
                           <<ctx, code, gas, vm>>, NoInfo)
    /\ steps' = steps + 1
    /\ UNCHANGED <<state, stack, confidential_ctx, schedule>>

NextFactory == VmCreate

SpecFactory == InitFactory /\ [][NextFactory]_vars

BeginsWith(code, prefix) ==
    Len(code) >= Len(prefix) /\ SubSeq(code, 1, Len(prefix)) = prefix

\* C25: the factory selects the WebAssembly interpreter exactly when the schedule
\* enables WebAssembly and the code, of whatever length, begins with the four magic
\* bytes (absent code does not); in every other case it selects the bytecode
\* interpreter; the selected interpreter is wrapped in the confidentiality-aware
\* adapter together with the context it was given.
C25_WasmIffMagicPrefix ==
    [][(last'.op = "vm_create")
          => LET ctx == last'.args[1]
                 code == last'.args[2]
                 vm == last'.args[4]
                 wasm == /\ schedule.wasm # None
                         /\ code # None
                         /\ BeginsWith(Unwrap(code), WASM_MAGIC_NUMBER)
             IN  /\ vm.kind = "OasisVm"
                 /\ vm.ctx = ctx
                 /\ vm.vm.kind = IF wasm THEN "WasmInterpreter" ELSE "Interpreter"]_vars

(***************************************************************************)
(* The bridge between the foreign virtual machine's host interface and the *)
(* execution context: HostContext of ssvm.rs.                              *)
(***************************************************************************)
ZeroAddress == <<0>>

\* Externalities::storage_at
storage_at(st, f, key, dberr) ==
    IF dberr
    THEN [tag |-> "StorageError", word |-> 0]
    ELSE [tag |-> "Ok", word |-> StorageAt(st, f.origin_info.address, key)]

HostStored(status, issued, o) ==
    [status |-> status, issued |-> issued, ext |-> o.res, state |-> o.state,
     substate |-> o.substate]

\* HostContext::set_storage
host_set_storage(st, f, key, value, rderr, wrerr) ==
    LET read == storage_at(st, f, key, rderr)
        orig_v == IF read.tag = "Ok" THEN read.word ELSE 0
        new_v == value
        status == IF orig_v = 0
                  THEN "EVMC_STORAGE_ADDED"
                  ELSE IF orig_v = new_v
                       THEN "EVMC_STORAGE_UNCHANGED"
                       ELSE "EVMC_STORAGE_MODIFIED"
    IN  IF status # "EVMC_STORAGE_UNCHANGED"
        THEN HostStored(status, TRUE, set_storage(st, f, key, new_v, wrerr))
        ELSE HostStored(status, FALSE, Outcome("NotIssued", st, f.substate))

\* convert_calltype of HostContext::call
convert_calltype(kind, is_static) ==
    IF is_static THEN "StaticCall"
    ELSE IF kind = "EVMC_CALL" THEN "Call"
    ELSE IF kind = "EVMC_CALLCODE" THEN "CallCode"
    ELSE IF kind = "EVMC_DELEGATECALL" THEN "DelegateCall"
    ELSE "None"

CreateKinds == {"EVMC_CREATE", "EVMC_CREATE2"}

Ended(result, st, sub) == [result |-> result, state |-> st, substate |-> sub]

\* self.ext.create(gas, value, &mut [], scheme) of HostContext::call, the nested
\* execution ending with vmres
host_ext_create(st, f, ctx_activated, kind, value, gas, salt, vmres, dberr) ==
    LET scheme == IF kind = "EVMC_CREATE"
                  THEN FromSenderAndNonce
                  ELSE FromSenderSaltAndCodeHash(salt)
        p == create_prepare(st, f, ctx_activated, gas, value, <<>>, scheme, dberr)
    IN  IF p.failed
        THEN Ended(Failed, p.state, f.substate)
        ELSE LET params == Unwrap(p.params)
                 e == enact_result(vmres, executive_transfer(p.state, params),
                                   create_checkpoint(st, p), f.substate, NewSubstate)
                 fin == create_finish(e.substate, vmres, params.address)
             IN  Ended(fin.result, e.state, fin.substate)

\* self.ext.call(gas, sender, destination, Some(value), input, destination, &mut [],
\* convert_calltype(kind, is_static)) of HostContext::call
host_ext_call(st, f, kind, destination, sender, value, input, gas, is_static, vmres, dberr) ==
    LET p == call_prepare(st, f, gas, sender, destination, Some(value), input, destination,
                          convert_calltype(kind, is_static), dberr)
    IN  IF p.failed
        THEN Ended(Failed, p.state, f.substate)
        ELSE IF executive_transfer_panics(p.state, Unwrap(p.params))
        THEN Ended(Result("Panic", None, 0, <<>>), p.state, f.substate)
        ELSE LET params == Unwrap(p.params)
                 e == enact_result(vmres, executive_transfer(p.state, params), p.state,
                                   f.substate, NewSubstate)
                 fin == call_finish(e.substate, vmres)
             IN  Ended(fin.result, e.state, fin.substate)

HostReturn(output, gas_left, address, status) ==
    [output |-> output, gas_left |-> gas_left, address |-> address, status |-> status]

\* the two matches on the result at the end of HostContext::call
host_call_return(kind, gas, result) ==
    IF kind \in CreateKinds
    THEN IF result.tag = "Created"
         THEN HostReturn(<<>>, result.gas_left, Unwrap(result.address), "EVMC_SUCCESS")
         ELSE IF result.tag = "Failed"
         THEN HostReturn(<<>>, gas, ZeroAddress, "EVMC_FAILURE")
         ELSE HostReturn(result.return_data, result.gas_left, ZeroAddress, "EVMC_REVERT")
    ELSE IF result.tag = "Success"
         THEN HostReturn(result.return_data, result.gas_left, ZeroAddress, "EVMC_SUCCESS")
         ELSE IF result.tag = "Failed"
         THEN HostReturn(<<>>, gas, ZeroAddress, "EVMC_FAILURE")
         ELSE HostReturn(result.return_data, result.gas_left, ZeroAddress, "EVMC_REVERT")


InitBridge ==
    /\ \E w \in {0, 1} :
          state = [InitState EXCEPT !.storage = IF w = 0 THEN << >> ELSE (<<A1, 0>> :> w)]
    /\ confidential_ctx \in BOOLEAN
    /\ schedule \in Schedules
    /\ \E static_flag \in BOOLEAN :
            stack = <<NewFrame(TopParams(A1), 0, static_flag, InitContract(None), "top",
                               InitState)>>
    /\ steps = 0
    /\ last = Last("new", [origin_info |-> OriginInfo_from(TopParams(A1)),
                           static_flag |-> FALSE],
                   Result("Ok", None, 0, <<>>), <<>>, NoInfo)

HostSetStorage ==
    /\ Running
    /\ \E key \in Keys, value \in {0, 1, 2}, rderr \in BOOLEAN, wrerr \in BOOLEAN :
          LET r == host_set_storage(state, Top, key, value, rderr, wrerr)
          IN  /\ state' = r.state
              /\ stack' = [stack EXCEPT ![Len(stack)].substate = r.substate]
              /\ last' = Last("host_set_storage", Top, Result(r.status, None, 0, <<>>),
                              <<key, value, rderr, wrerr, r.issued, r.ext>>, NoInfo)
    /\ steps' = steps + 1
    /\ UNCHANGED <<confidential_ctx, schedule>>

HostCallInputs ==
    {[kind |-> "EVMC_CALL", destination |-> d, is_static |-> b, salt |-> 0] :
        d \in {A2, A3}, b \in BOOLEAN}
    \cup {[kind |-> k, destination |-> A2, is_static |-> FALSE, salt |-> 0] :
              k \in {"EVMC_DELEGATECALL", "EVMC_CALLCODE", "EVMC_CREATE"}}
    \cup {[kind |-> "EVMC_CREATE2", destination |-> A2, is_static |-> FALSE, salt |-> s] :
              s \in Salts}

HostCall ==
    /\ Running
    /\ \E in \in HostCallInputs, dberr \in CreateFailures,
          vmres \in {VmErr} \cup {VmOk(g, a, Payload) : g \in GasValues, a \in BOOLEAN} :
          LET sender == Top.origin_info.address
              gas == GasLimit
              r == IF in.kind \in CreateKinds
                   THEN host_ext_create(state, Top, confidential_ctx, in.kind, 0, gas,
                                        in.salt, vmres, dberr)
                   ELSE host_ext_call(state, Top, in.kind, in.destination, sender, 0, <<>>,
                                      gas, in.is_static, vmres, dberr # "none")
              out == host_call_return(in.kind, gas, r.result)
          IN  /\ r.result.tag # "Panic"
              /\ state' = r.state
              /\ stack' = [stack EXCEPT ![Len(stack)].substate = r.substate]
              /\ last' = Last("host_call", Top,
                              Result(out.status, Some(out.address), out.gas_left, out.output),
                              <<in.kind, gas, r.result>>, NoInfo)
    /\ steps' = steps + 1
    /\ UNCHANGED <<confidential_ctx, schedule>>

NextBridge ==
    \/ HostSetStorage
    \/ HostCall

SpecBridge == InitBridge /\ [][NextBridge]_vars

\* C26: the bridge's set_storage reports 'unchanged', and issues no write, when the
\* new value equals the stored value; 'added' when the stored value is zero and the
\* new value differs; 'modified' when the stored value is not zero and the new value
\* differs; it issues the write in the latter two cases.
C26_StorageStatus ==
    [][(last'.op = "host_set_storage" /\ ~last'.args[3])
          => LET stored == StorageAt(state, last'.address, last'.args[1])
                 new == last'.args[2]
                 issued == last'.args[5]
             IN  /\ last'.result.tag = IF new = stored THEN "EVMC_STORAGE_UNCHANGED"
                                       ELSE IF stored = 0 THEN "EVMC_STORAGE_ADDED"
                                       ELSE "EVMC_STORAGE_MODIFIED"
                 /\ issued <=> (new # stored)]_vars

\* C27: the bridge's call callback reports success with the gas left and the return
\* data (and the created address for a create) for Success and Created, revert with
\* the gas left and the return data for Reverted, and failure with no gas left,
\* empty data and the zero address for Failed.
C27_CallStatus ==
    [][(last'.op = "host_call")
          => LET kind == last'.args[1]
                 result == last'.args[3]
                 out == last'.result
             IN  /\ (result.tag \in {"Success", "Created"})
                       => /\ out.tag = "EVMC_SUCCESS"
                          /\ out.gas_left = result.gas_left
                          /\ out.return_data = result.return_data
                          /\ (result.tag = "Created") => out.address = result.address
                 /\ (result.tag = "Reverted")
                       => /\ out.tag = "EVMC_REVERT"
                          /\ out.gas_left = result.gas_left
                          /\ out.return_data = result.return_data
                 /\ (result.tag = "Failed")
                       => /\ out.tag = "EVMC_FAILURE"
                          /\ out.gas_left = 0
                          /\ out.return_data = <<>>
                          /\ out.address = Some(ZeroAddress)]_vars

\* C28: in a static frame, where setStorage is rejected and nothing is written, the
\* bridge's set_storage of a value that differs from the stored one reports neither
\* 'added' nor 'modified'.
C28_StaticWriteNotReported ==
    [][(/\ last'.op = "host_set_storage"
        /\ stack[1].static_flag
        /\ last'.args[2] # StorageAt(state, last'.address, last'.args[1]))
          => /\ state' = state
             /\ last'.result.tag \notin {"EVMC_STORAGE_ADDED", "EVMC_STORAGE_MODIFIED"}]_vars

(***************************************************************************)
(* The header rewrite of create, applied to the code it produced.          *)
(***************************************************************************)
\* headerless code, a malformed header, and every V1 header before four bodies
RewriteCodes ==
    {Payload, Payload \o Payload, InvalidCode}
        \cup {header_to_vec(HeaderV1(c, e)) \o body :
                  c \in {None, Some(FALSE), Some(TRUE)}, e \in {None, Some(1)},
                  body \in {<<>>, Payload, Payload \o Payload,
                            header_to_vec(HeaderV1(None, None)) \o Payload}}

InitRewrite ==
    /\ state = InitState
    /\ confidential_ctx \in BOOLEAN
    /\ schedule \in Schedules
    /\ stack = <<NewFrame(TopParams(A1), 0, FALSE, InitContract(None), "top", InitState)>>
    /\ steps = 0
    /\ \E code \in RewriteCodes :
          last = Last("new", [origin_info |-> OriginInfo_from(TopParams(A1)),
                              static_flag |-> FALSE],
                      Result("Ok", None, 0, code), <<>>, NoInfo)

\* the rewrite is applied to the code at hand: the creator's at first, then its own
\* output
RewriteCode ==
    /\ Running
    /\ last.result.tag = "Ok"
    /\ LET code == last.result.return_data
           r == rewrite_code(confidential_ctx, code)
       IN  last' = Last("rewrite_code", Top, Result(r.tag, None, 0, r.code), <<code>>, NoInfo)
    /\ steps' = steps + 1
    /\ UNCHANGED <<state, stack, confidential_ctx, schedule>>

NextRewrite == RewriteCode

SpecRewrite == InitRewrite /\ [][NextRewrite]_vars

\* C29: in an active confidential context the header rewrite of create, applied to
\* its own output, returns that output byte for byte, for headerless code and for
\* every valid header (confidential absent, false or true; expiry absent or present).
C29_RewriteIdempotent ==
    [][(/\ confidential_ctx
        /\ last.op = "rewrite_code"
        /\ last'.op = "rewrite_code")
          => /\ last'.args[1] = last.result.return_data
             /\ last'.result.tag = "Ok"
             /\ last'.result.return_data = last.result.return_data]_vars

\* the rewrite has been applied a second time, to the confidential header with an
\* expiry that its first application returned, and has returned it unchanged
C29_Witness ==
    /\ confidential_ctx
    /\ last.op = "rewrite_code"
    /\ steps = 2
    /\ last.args[1] = header_to_vec(HeaderV1(Some(TRUE), Some(1))) \o Payload
    /\ last.result.return_data = last.args[1]

SignedNonceCreate ==
    /\ CreateInvoked
    /\ ~last'.static_flag
    /\ last'.address # UNSIGNED_SENDER
    /\ last'.info.scheme = FromSenderAndNonce

\* C30 as stated: every create call of a non-static frame of a signed account under
\* the sender-and-nonce scheme advances the creator's nonce by one, so that k calls
\* leave it at its initial value plus k (the store not failing), and the increment is
\* still there when the nested execution has ended Created, Reverted or Failed.
C30_EveryCreateAdvancesNonce ==
    [][/\ (SignedNonceCreate /\ last'.info.cause \notin {"nonce", "inc_nonce"})
             => Nonce(state', last'.address) = Nonce(state, last'.address) + 1
       /\ (NestedReturned /\ last'.op = "create" /\ last'.result.tag \in Unsuccessful)
             => Nonce(state', last'.address) = Nonce(Top.checkpoint, last'.address)]_vars

\* C30 amended: a create that reaches the nested execution derives the address from
\* the nonce read before the increment, an address no smaller nonce gives, and has
\* incremented the nonce by one before the nested execution starts, in the store the
\* executive rolls back to; when the nested execution ends Reverted or Failed the
\* creator's nonce is that incremented value, and when it ends Created the nonce is
\* what the nested execution left.  A create that returns Failed before the nested
\* execution leaves the nonce as it was.
C30_EnteredCreateAdvancesNonce ==
    [][/\ SignedNonceCreate
             => LET a == last'.address
                    n == Nonce(state, a)
                    derived == last'.info.derivation.address
                IN  IF last'.op = "create_enter"
                    THEN /\ derived = contract_address(FromSenderAndNonce, a, n,
                                                       last'.info.code).address
                         /\ \A m \in 0..(n - 1) :
                               contract_address(FromSenderAndNonce, a, m,
                                                last'.info.code).address # derived
                         /\ Nonce(state', a) = n + 1
                         /\ Nonce(stack'[Len(stack')].checkpoint, a) = n + 1
                    ELSE Nonce(state', a) = n
       /\ (NestedReturned /\ last'.op = "create")
             => IF last'.result.tag \in Unsuccessful
                THEN Nonce(state', last'.address) = Nonce(Top.checkpoint, last'.address)
                ELSE Nonce(state', last'.address) = Nonce(state, last'.address)]_vars

\* the signed account's second create has ended Failed in the nested execution, the
\* first one having ended too, and the nonce stands at two
C30_Witness ==
    /\ last.op = "create"
    /\ last.address = A1
    /\ ~last.static_flag
    /\ last.info.cause = "nested"
    /\ last.result.tag = "Failed"
    /\ last.info.derivation.address = <<A1, 1>>
    /\ Len(stack) = 1
    /\ Nonce(state, A1) = 2

RECURSIVE SumOver(_, _)
SumOver(m, S) ==
    IF S = {}
    THEN 0
    ELSE LET x == CHOOSE y \in S : TRUE
         IN  m[x] + SumOver(m, S \ {x})

\* the sum of all account balances of a store
TotalBalance(st) == SumOver(st.balance, DOMAIN st.balance)

SameBalances ==
    \A x \in DOMAIN state.balance \cup DOMAIN state'.balance :
        Balance(state', x) = Balance(state, x)

\* C31: in a non-static frame a suicide to another address leaves the sum of all
\* balances as it was, and a suicide to the frame's own address lowers the sum by
\* exactly the balance the address had; a suicide that is rejected or fails, and
\* setStorage, setStorageBytes, log, incSstoreClears and a ret whose result is kept,
\* change no balance.
C31_SuicideConservesBalance ==
    [][/\ (last'.op = "suicide" /\ ~last'.static_flag /\ last'.result.tag = "Ok")
             => LET A == Top.origin_info.address
                    R == last'.args[1]
                    b == Balance(state, A)
                IN  TotalBalance(state') = IF R = A
                                           THEN TotalBalance(state) - b
                                           ELSE TotalBalance(state)
       /\ (last'.op = "suicide" /\ last'.result.tag # "Ok") => SameBalances
       /\ (last'.op \in {"set_storage", "set_storage_bytes", "log", "inc_sstore_clears"})
             => SameBalances
       /\ (/\ NestedReturned
           /\ last'.info.vmres.tag = "Ok"
           /\ last'.info.vmres.apply_state)
             => SameBalances]_vars

\* the frame at A1, holding a balance of 1, destructed to itself and the sum of all
\* balances went from 1 to 0
C31_Witness ==
    /\ last.op = "suicide"
    /\ last.address = A1
    /\ ~last.static_flag
    /\ last.args[1] = A1
    /\ last.result.tag = "Ok"
    /\ steps = 1
    /\ TotalBalance(InitState) = 1
    /\ TotalBalance(state) = 0

\* C32: in a static frame set(key, value) and remove(key) of the key-value view leave
\* the store and the frame as they were and hand nothing back to the caller, the
\* rejection being swallowed; a get of the key that follows returns the value that was
\* stored before the set or remove.
C32_StaticKvWritesSwallowed ==
    [][/\ (last'.op \in {"kv_set", "kv_remove"} /\ stack[1].static_flag)
             => /\ state' = state
                /\ stack' = stack
                /\ last'.result = Result("Unit", None, 0, <<>>)
       /\ (/\ last.op \in {"kv_set", "kv_remove"}
           /\ stack[1].static_flag
           /\ last'.op = "kv_get"
           /\ last'.args[1] = last.args[1]
           /\ ~last'.args[3])
             => /\ last'.result.tag = "Some"
                /\ last'.result.return_data =
                      StorageBytesAt(state, A1, last.args[4])]_vars

\* in a static frame a key of more than 32 bytes holds <<5>>; a set of <<6>> has
\* returned and the key still holds <<5>>
C32_Witness ==
    /\ stack[1].static_flag
    /\ last.op = "kv_set"
    /\ Len(last.args[1]) = KeySize + 1
    /\ last.args[2] = <<6>>
    /\ ~last.args[3]
    /\ last.result.tag = "Unit"
    /\ kv_get(state, stack[1], last.args[1], FALSE) = Some(<<5>>)

====
